---- MODULE Spec2Model ----
(***************************************************************************)
(* Model of the cooking-workflow table of recipe-summarizer:               *)
(*   - MarkdownTableRenderer (frontend/src/components/TableView.tsx): the  *)
(*     markdown parser, calculateMerges and the row rendering;             *)
(*   - getBaseIngredient and RecipeTable (components/RecipeTable.tsx);     *)
(*   - the pipe-table serialization of a built table.                      *)
(* A JavaScript string is a sequence of one-character strings, so "" is    *)
(* << >> and "|a|" is << "|", "a", "|" >>.  Row and column indices are the *)
(* 0-based indices of the source; sequences are 1-based, so the cell of    *)
(* row r and column c is rows[r + 1][c + 1].                               *)
(***************************************************************************)
EXTENDS Integers, Sequences, FiniteSets, TLC

VARIABLES
    ingredient,     \* argument of getBaseIngredient (string)
    baseIngredient, \* result of getBaseIngredient (string)
    recipe,         \* prop of RecipeTable: [ingredients, instructions, ingredient_groups]
    table,          \* the table RecipeTable returns: [hasGroups, headers, rows]
    markdownTable,  \* prop of MarkdownTableRenderer (string)
    parsedRows,     \* parsedRows of MarkdownTableRenderer (string[][])
    merges,         \* result of calculateMerges: key <<row, col>> -> MergeInfo
    rendered,       \* the <tr> elements returned by MarkdownTableRenderer
    pc              \* position: "ingredient", "normalized" (getBaseIngredient);
                    \* "recipe", "built", "threw" (RecipeTable); "props",
                    \* "parsed", "rendered", "threw" (MarkdownTableRenderer)
VARIABLES
    tableData,      \* state of TableView: null or the stored TableData
    loading,        \* state of TableView (boolean)
    error,          \* state of TableView: '' or a failure message
    showTable,      \* state of TableView (boolean)
    savingImage,    \* state of TableView (boolean)
    received,       \* body of the last OK response of /api/parse-to-table
    inFlight,       \* number of /api/parse-to-table requests without a response
    issued,         \* number of /api/parse-to-table requests sent so far
    handler         \* position of the running continuation of generateTable
VARIABLES
    user,              \* state of AuthProvider: null or the fetched profile
    token,             \* state of AuthProvider: NoToken (null) or an access token
    localStorageToken, \* localStorage item 'token': NoToken (absent) or a token
    authLoading,       \* state loading of AuthProvider (boolean)
    authError,         \* state error of AuthProvider: '' or a message
    loginPc,           \* position of login: "idle", "login", "profile"
    closureToken,      \* token of the render whose login and fetchProfile run
    profileRequests,   \* /api/profile requests without a response: [bearer, from]
    effectPending,     \* the effect on [token] is scheduled and has not run
    accessToken,       \* the access token the server issued last and accepts
    logoutInvoked      \* the user invoked logout since the last OK login

mdVars == <<markdownTable, parsedRows, merges, rendered>>
normVars == <<ingredient, baseIngredient>>
viewVars == <<tableData, loading, error, showTable, savingImage, received, inFlight, issued, handler>>
authVars == <<user, token, localStorageToken, authLoading, authError, loginPc, closureToken, profileRequests, effectPending, accessToken, logoutInvoked>>
vars == <<ingredient, baseIngredient, recipe, table, markdownTable, parsedRows, merges, rendered, pc, viewVars, authVars>>

----------------------------------------------------------------------------
(* Bounds of the model.                                                    *)

MaxCols == 3        \* cells per row of the ragged grids (label + 2 steps)
MaxRows == 4        \* rows of the ragged grids (2 prep rows + 2 data rows)
MaxTallRows == 8    \* rows of the one-step-column grids (2 prep + 6 data)
MaxIngredients == 2 \* ingredients of a drawn recipe
MaxSteps == 2       \* instructions of a drawn recipe
MaxQualifiers == 2  \* preparation qualifiers after the name of a drawn ingredient
MaxTextLen == 8     \* characters of the markdown texts drawn character by character
MaxGroups == 2      \* ingredient groups of a drawn recipe
MaxCells == 2       \* step cells of the row of a drawn table object
MaxRequests == 3    \* /api/parse-to-table requests of one TableView
MaxTokens == 3      \* access tokens the server issues

----------------------------------------------------------------------------
(* JavaScript values.                                                      *)

EmptyString == << >>
X == << "X" >>
Y == << "Y" >>

\* The value of an array read past its end; no string equals it.
Undefined == << "undefined" >>

\* The value null where an object is expected; no object equals it.
Null == [null |-> TRUE]

\* The value of an absent object field.
Absent == [undefined |-> TRUE]

\* The state of TableView after the first render (useState, TableView.tsx:
\* 459-462), with no request sent.
NoTableView ==
    /\ tableData = Null
    /\ loading = FALSE
    /\ error = ""
    /\ showTable = FALSE
    /\ savingImage = FALSE
    /\ received = Null
    /\ inFlight = 0
    /\ issued = 0
    /\ handler = "idle"

\* The value null of the token state and the absent localStorage item;
\* the access tokens are the numbers from 1, in the order of their issue.
NoToken == 0

\* The state of a page without a mounted AuthProvider.
NoAuth ==
    /\ user = Null
    /\ token = NoToken
    /\ localStorageToken = NoToken
    /\ authLoading = FALSE
    /\ authError = ""
    /\ loginPc = "idle"
    /\ closureToken = NoToken
    /\ profileRequests = {}
    /\ effectPending = FALSE
    /\ accessToken = NoToken
    /\ logoutInvoked = FALSE

\* The recipe of a state in which no RecipeTable is rendered.
NoRecipe == [ingredients |-> << >>, instructions |-> << >>, ingredient_groups |-> << >>]

\* The table of a state in which no RecipeTable has been rendered.
NoTable == [hasGroups |-> FALSE, headers |-> << >>, rows |-> << >>]

\* The empty object {} calculateMerges starts from.
EmptyMerges == [k \in {} |-> [rowSpan |-> 0, isSpanned |-> FALSE]]

\* merges[`${row}-${col}`] = info (an assignment replaces an older entry).
PutMerge(m, row, col, info) == (<<row, col>> :> info) @@ m

\* array[index] of JavaScript: undefined past the end.
ArrayGet(array, index) ==
    IF index >= 0 /\ index < Len(array) THEN array[index + 1] ELSE Undefined

\* array.slice(start) for 0 <= start.
SliceFrom(array, start) ==
    IF start >= Len(array) THEN << >>
    ELSE [i \in 1..(Len(array) - start) |-> array[i + start]]

----------------------------------------------------------------------------
(* String operations of JavaScript used by the parser.                     *)

\* Characters String.prototype.trim removes (those the model's texts use).
WhiteSpace == {" ", "\t", "\r", "\n"}

\* s.trim()
RECURSIVE TrimStart(_)
TrimStart(s) ==
    IF s # << >> /\ Head(s) \in WhiteSpace THEN TrimStart(Tail(s)) ELSE s

RECURSIVE TrimEnd(_)
TrimEnd(s) ==
    IF s # << >> /\ s[Len(s)] \in WhiteSpace THEN TrimEnd(SubSeq(s, 1, Len(s) - 1)) ELSE s

Trim(s) == TrimEnd(TrimStart(s))

\* Index of the first occurrence of the character sep in s, 0 when absent.
RECURSIVE IndexOfFrom(_, _, _)
IndexOfFrom(s, sep, i) ==
    IF i > Len(s) THEN 0
    ELSE IF s[i] = sep THEN i
    ELSE IndexOfFrom(s, sep, i + 1)

\* s.split(sep) for a one-character separator: "".split(sep) is [""].
RECURSIVE Split(_, _)
Split(s, sep) ==
    LET i == IndexOfFrom(s, sep, 1)
    IN  IF i = 0 THEN <<s>>
        ELSE <<SubSeq(s, 1, i - 1)>> \o Split(SubSeq(s, i + 1, Len(s)), sep)

\* array.slice(1): the fragment after the last pipe is kept.
SliceInnerKeepLast(array) ==
    IF Len(array) <= 1 THEN << >> ELSE SubSeq(array, 2, Len(array))

\* array.slice(1, -1)
SliceInner(array) ==
    IF Len(array) <= 2 THEN << >> ELSE SubSeq(array, 2, Len(array) - 1)

\* array.map(cell => cell.trim())
MapTrim(array) == [i \in 1..Len(array) |-> Trim(array[i])]

----------------------------------------------------------------------------
(* getBaseIngredient, RecipeTable.tsx:10-13.                               *)

\* s.slice(from) with 1-based from: the characters from position from on.
Drop(s, from) == SubSeq(s, from, Len(s))

\* The word w stands in s at position i.
WordAt(s, i, w) == i + Len(w) - 1 <= Len(s) /\ SubSeq(s, i, i + Len(w) - 1) = w

\* s.includes(sub)
Includes(s, sub) == \E i \in 1..(Len(s) - Len(sub) + 1) : WordAt(s, i, sub)

\* The class [\d./] of the first regular expression.
QuantityChars == {"0", "1", "2", "3", "4", "5", "6", "7", "8", "9", ".", "/"}

\* Length of the longest prefix of s made of characters of [\d./].
RECURSIVE QuantityLen(_)
QuantityLen(s) ==
    IF s # << >> /\ Head(s) \in QuantityChars THEN 1 + QuantityLen(Tail(s)) ELSE 0

\* The alternatives of the unit group, in the order of the source:
\* cups?|teaspoons?|tablespoons?|ounces?|grams?|kg|ml|g|oz|tbsp|tsp|lb|pound|pieces?|of\s
UnitAlternatives ==
    <<
       [word |-> <<"c", "u", "p">>, optionalS |-> TRUE, space |-> FALSE],
       [word |-> <<"t", "e", "a", "s", "p", "o", "o", "n">>, optionalS |-> TRUE, space |-> FALSE],
       [word |-> <<"t", "a", "b", "l", "e", "s", "p", "o", "o", "n">>, optionalS |-> TRUE, space |-> FALSE],
       [word |-> <<"o", "u", "n", "c", "e">>, optionalS |-> TRUE, space |-> FALSE],
       [word |-> <<"g", "r", "a", "m">>, optionalS |-> TRUE, space |-> FALSE],
       [word |-> <<"k", "g">>, optionalS |-> FALSE, space |-> FALSE],
       [word |-> <<"m", "l">>, optionalS |-> FALSE, space |-> FALSE],
       [word |-> <<"g">>, optionalS |-> FALSE, space |-> FALSE],
       [word |-> <<"o", "z">>, optionalS |-> FALSE, space |-> FALSE],
       [word |-> <<"t", "b", "s", "p">>, optionalS |-> FALSE, space |-> FALSE],
       [word |-> <<"t", "s", "p">>, optionalS |-> FALSE, space |-> FALSE],
       [word |-> <<"l", "b">>, optionalS |-> FALSE, space |-> FALSE],
       [word |-> <<"p", "o", "u", "n", "d">>, optionalS |-> FALSE, space |-> FALSE],
       [word |-> <<"p", "i", "e", "c", "e">>, optionalS |-> TRUE, space |-> FALSE],
       [word |-> <<"o", "f">>, optionalS |-> FALSE, space |-> TRUE]
    >>

\* Number of characters alternative a matches at position i of s, -1 when
\* it does not match there ("s?" is greedy, "\s" is one whitespace character).
UnitAlternativeLen(s, i, a) ==
    LET end == i + Len(a.word)
    IN  IF ~WordAt(s, i, a.word) THEN -1
        ELSE IF a.optionalS
             THEN IF end <= Len(s) /\ s[end] = "s" THEN Len(a.word) + 1 ELSE Len(a.word)
        ELSE IF a.space
             THEN IF end <= Len(s) /\ s[end] \in WhiteSpace THEN Len(a.word) + 1 ELSE -1
        ELSE Len(a.word)

\* The optional group (?:...)? at position i: the first alternative that
\* matches decides, and no match leaves the group empty.
RECURSIVE UnitLenFrom(_, _, _)
UnitLenFrom(s, i, k) ==
    IF k > Len(UnitAlternatives) THEN 0
    ELSE IF UnitAlternativeLen(s, i, UnitAlternatives[k]) >= 0
         THEN UnitAlternativeLen(s, i, UnitAlternatives[k])
    ELSE UnitLenFrom(s, i, k + 1)

\* .replace(/^[\d./]+ (?:...)?/, ''): the quantity, one space and the unit.
StripQuantityUnit(s) ==
    LET n == QuantityLen(s)
    IN  IF n >= 1 /\ n < Len(s) /\ s[n + 1] = " "
        THEN Drop(s, n + 2 + UnitLenFrom(s, n + 2, 1))
        ELSE s

\* softened|chopped|diced|minced|beaten|melted|sifted|divided
Qualifiers ==
    {
       <<"s", "o", "f", "t", "e", "n", "e", "d">>,
       <<"c", "h", "o", "p", "p", "e", "d">>,
       <<"d", "i", "c", "e", "d">>,
       <<"m", "i", "n", "c", "e", "d">>,
       <<"b", "e", "a", "t", "e", "n">>,
       <<"m", "e", "l", "t", "e", "d">>,
       <<"s", "i", "f", "t", "e", "d">>,
       <<"d", "i", "v", "i", "d", "e", "d">>
    }

\* Length of the run of whitespace of s that starts at position i.
RECURSIVE SpaceRun(_, _)
SpaceRun(s, i) ==
    IF i <= Len(s) /\ s[i] \in WhiteSpace THEN 1 + SpaceRun(s, i + 1) ELSE 0

\* Position after a match of /,?\s*(?:...)/ that starts at position i of s,
\* 0 when there is none.
QualifierMatchEnd(s, i) ==
    LET j == IF i <= Len(s) /\ s[i] = "," THEN i + 1 ELSE i
        k == j + SpaceRun(s, j)
        ws == {w \in Qualifiers : WordAt(s, k, w)}
    IN  IF ws = {} THEN 0 ELSE k + Len(CHOOSE w \in ws : TRUE)

\* .replace(/,?\s*(?:...)/, ''): only the leftmost match is removed (the
\* expression has no g flag).
RECURSIVE StripQualifierFrom(_, _)
StripQualifierFrom(s, i) ==
    IF i > Len(s) THEN s
    ELSE IF QualifierMatchEnd(s, i) # 0
         THEN SubSeq(s, 1, i - 1) \o Drop(s, QualifierMatchEnd(s, i))
    ELSE StripQualifierFrom(s, i + 1)

StripQualifier(s) == StripQualifierFrom(s, 1)

GetBaseIngredient(s) == StripQualifier(StripQuantityUnit(s))

----------------------------------------------------------------------------
(* RecipeTable, RecipeTable.tsx:15-107.                                    *)

UpperLetters == <<"A", "B", "C", "D", "E", "F", "G", "H", "I", "J", "K", "L", "M", "N", "O", "P", "Q", "R", "S", "T", "U", "V", "W", "X", "Y", "Z">>
LowerLetters == <<"a", "b", "c", "d", "e", "f", "g", "h", "i", "j", "k", "l", "m", "n", "o", "p", "q", "r", "s", "t", "u", "v", "w", "x", "y", "z">>

\* s.toLowerCase() on the letters A-Z.
LowerChar(c) ==
    IF \E i \in 1..26 : UpperLetters[i] = c
    THEN LowerLetters[CHOOSE i \in 1..26 : UpperLetters[i] = c]
    ELSE c

ToLowerCase(s) == [i \in 1..Len(s) |-> LowerChar(s[i])]

\* The prep test without toLowerCase.
IsPrepStepCaseSensitive(instruction) ==
    \/ Includes(instruction, <<"p", "r", "e", "h", "e", "a", "t">>)
    \/ Includes(instruction, <<"g", "a", "t", "h", "e", "r">>)

\* The test of findStepGroups (30-31) that skips a prep step.
IsPrepStep(instruction) ==
    \/ Includes(ToLowerCase(instruction), <<"p", "r", "e", "h", "e", "a", "t">>)
    \/ Includes(ToLowerCase(instruction), <<"g", "a", "t", "h", "e", "r">>)

\* The cell test without the two toLowerCase calls.
IsUsedInStepCaseSensitive(item, instruction) ==
    Includes(instruction, GetBaseIngredient(item))

\* instruction.toLowerCase().includes(getBaseIngredient(ingredient).toLowerCase())
IsUsedInStep(item, instruction) ==
    Includes(ToLowerCase(instruction), ToLowerCase(GetBaseIngredient(item)))

\* The ingredients of a step without the filter.
UsedIngredientsUnfiltered(r, instruction) == r.ingredients

\* recipe.ingredients.filter(...) of findStepGroups (36-39).
UsedIngredients(r, instruction) ==
    SelectSeq(r.ingredients, LAMBDA item : IsUsedInStep(item, instruction))

\* The group test without the count of the used ingredients.
IsPartOfGroupAlone(r, item, stepIndex) ==
    LET instruction == r.instructions[stepIndex + 1]
        usedIngredients == UsedIngredients(r, instruction)
    IN  /\ ~IsPrepStep(instruction)
        /\ \E i \in 1..Len(usedIngredients) : usedIngredients[i] = item

\* stepGroups[ingredient]?.includes(stepIndex): findStepGroups (25-53) records
\* stepIndex under every ingredient string of a non-prep step that uses more
\* than one ingredient.
IsPartOfGroup(r, item, stepIndex) ==
    LET instruction == r.instructions[stepIndex + 1]
        usedIngredients == UsedIngredients(r, instruction)
    IN  /\ ~IsPrepStep(instruction)
        /\ Len(usedIngredients) > 1
        /\ \E i \in 1..Len(usedIngredients) : usedIngredients[i] = item

\* recipe.ingredient_groups && recipe.ingredient_groups.length > 0
HasGroups(r) == Len(r.ingredient_groups) > 0

GroupedIngredients(r) ==
    IF HasGroups(r) THEN r.ingredient_groups
    ELSE << [purpose |-> <<"I", "n", "g", "r", "e", "d", "i", "e", "n", "t", "s">>, ingredients |-> r.ingredients] >>

\* The decimal digits of a step number below 100.
Digits == <<"0", "1", "2", "3", "4", "5", "6", "7", "8", "9">>

NumberText(n) ==
    IF n < 10 THEN <<Digits[n + 1]>> ELSE <<Digits[(n \div 10) + 1], Digits[(n % 10) + 1]>>

\* The header row with the steps numbered by their index, from 0.
HeadersFromZero(r) ==
    (IF HasGroups(r) THEN <<<<"G", "r", "o", "u", "p">>>> ELSE << >>)
    \o <<<<"I", "n", "g", "r", "e", "d", "i", "e", "n", "t", "s">>>>
    \o [i \in 1..Len(r.instructions) |-> <<"S", "t", "e", "p", " ">> \o NumberText(i - 1)]

\* The <th> cells of the header row (62-68).
Headers(r) ==
    (IF HasGroups(r) THEN <<<<"G", "r", "o", "u", "p">>>> ELSE << >>)
    \o <<<<"I", "n", "g", "r", "e", "d", "i", "e", "n", "t", "s">>>>
    \o [i \in 1..Len(r.instructions) |-> <<"S", "t", "e", "p", " ">> \o NumberText(i)]

\* The character of a used cell.
Bullet == <<"*">>

\* The step cells of a row with the prep steps left out.
StepCellsSkipPrep(r, item) ==
    LET steps == SelectSeq(r.instructions, LAMBDA instruction : ~IsPrepStep(instruction))
    IN  [i \in 1..Len(steps) |->
            [used |-> IsUsedInStep(item, steps[i]),
             grouped |-> FALSE,
             text |-> IF IsUsedInStep(item, steps[i]) THEN Bullet ELSE EmptyString]]

\* The <td> step cells of the row of an ingredient (85-98).
StepCells(r, item) ==
    [i \in 1..Len(r.instructions) |->
        [used |-> IsUsedInStep(item, r.instructions[i]),
         grouped |-> IsPartOfGroup(r, item, i - 1),
         text |-> IF IsUsedInStep(item, r.instructions[i]) THEN Bullet ELSE EmptyString]]

\* The rows of one group labelled with the base ingredient.
GroupRowsBaseLabel(r, group) ==
    [i \in 1..Len(group.ingredients) |->
        [groupCell |-> IF HasGroups(r) /\ i = 1 THEN <<group.purpose>> ELSE << >>,
         ingredient |-> GetBaseIngredient(group.ingredients[i]),
         cells |-> StepCells(r, group.ingredients[i])]]

\* The <tr> rows of one group (73-101): the first carries the group cell.
GroupRows(r, group) ==
    [i \in 1..Len(group.ingredients) |->
        [groupCell |-> IF HasGroups(r) /\ i = 1 THEN <<group.purpose>> ELSE << >>,
         ingredient |-> group.ingredients[i],
         cells |-> StepCells(r, group.ingredients[i])]]

RECURSIVE AllGroupRows(_, _, _)
AllGroupRows(r, groups, k) ==
    IF k > Len(groups) THEN << >>
    ELSE GroupRows(r, groups[k]) \o AllGroupRows(r, groups, k + 1)

RecipeTable(r) ==
    [hasGroups |-> HasGroups(r),
     headers |-> Headers(r),
     rows |-> AllGroupRows(r, GroupedIngredients(r), 1)]

\* The keys every object literal inherits from Object.prototype: for such a
\* key k the lookups groups[k] (43) and stepGroups[k] (89) give a function or
\* an object that is neither undefined nor an array.
ObjectPrototypeKeys ==
    {
       <<"c", "o", "n", "s", "t", "r", "u", "c", "t", "o", "r">>,
       <<"t", "o", "S", "t", "r", "i", "n", "g">>,
       <<"t", "o", "L", "o", "c", "a", "l", "e", "S", "t", "r", "i", "n", "g">>,
       <<"v", "a", "l", "u", "e", "O", "f">>,
       <<"h", "a", "s", "O", "w", "n", "P", "r", "o", "p", "e", "r", "t", "y">>,
       <<"i", "s", "P", "r", "o", "t", "o", "t", "y", "p", "e", "O", "f">>,
       <<"p", "r", "o", "p", "e", "r", "t", "y", "I", "s", "E", "n", "u", "m", "e", "r", "a", "b", "l", "e">>,
       <<"_", "_", "p", "r", "o", "t", "o", "_", "_">>,
       <<"_", "_", "d", "e", "f", "i", "n", "e", "G", "e", "t", "t", "e", "r", "_", "_">>,
       <<"_", "_", "d", "e", "f", "i", "n", "e", "S", "e", "t", "t", "e", "r", "_", "_">>,
       <<"_", "_", "l", "o", "o", "k", "u", "p", "G", "e", "t", "t", "e", "r", "_", "_">>,
       <<"_", "_", "l", "o", "o", "k", "u", "p", "S", "e", "t", "t", "e", "r", "_", "_">>
    }

\* findStepGroups (25-53) throws a TypeError at groups[ingredient].push (46)
\* when a non-prep step uses more than one ingredient and one of them is an
\* inherited key: the test of line 43 finds a value and no array is stored.
FindStepGroupsThrows(r) ==
    \E i \in 1..Len(r.instructions) :
        LET usedIngredients == UsedIngredients(r, r.instructions[i])
        IN  /\ ~IsPrepStep(r.instructions[i])
            /\ Len(usedIngredients) > 1
            /\ \E k \in 1..Len(usedIngredients) : usedIngredients[k] \in ObjectPrototypeKeys

\* The body rows (72-102) throw a TypeError at stepGroups[ingredient]?.includes
\* (89) when a step cell is rendered for an ingredient that is an inherited key.
StepCellsThrow(r) ==
    /\ Len(r.instructions) > 0
    /\ \E g \in 1..Len(GroupedIngredients(r)) :
          \E i \in 1..Len(GroupedIngredients(r)[g].ingredients) :
              GroupedIngredients(r)[g].ingredients[i] \in ObjectPrototypeKeys

\* A render of RecipeTable ends in an exception instead of a table.
RecipeTableThrows(r) == FindStepGroupsThrows(r) \/ StepCellsThrow(r)

\* The label the table view compares row.ingredient with (TableView.tsx:763).
PrepTasks == <<"P", "R", "E", "P", " ", "T", "A", "S", "K", "S">>

\* className of the <tr> the table view renders for a row of a table object.
RowClassName(row) == IF row.ingredient = PrepTasks THEN "prep-row" ELSE "ingredient-row"

----------------------------------------------------------------------------
(* The pipe-table serialization of a built table (backend, not in the      *)
(* frontend sources): one line per row, the header row first, the cells in *)
(* header order between a leading and a trailing pipe.                     *)

\* The texts of a table: the headers, then per row the label and the cells.
TableGrid(t) ==
    <<t.headers>> \o
    [i \in 1..Len(t.rows) |->
        <<t.rows[i].ingredient>> \o
        [j \in 1..Len(t.rows[i].cells) |-> t.rows[i].cells[j].text]]

RECURSIVE SerializeCells(_)
SerializeCells(cells) ==
    IF cells = << >> THEN << >>
    ELSE <<" ">> \o Head(cells) \o <<" ", "|">> \o SerializeCells(Tail(cells))

SerializeRow(cells) == <<"|">> \o SerializeCells(cells)

RECURSIVE SerializeRows(_)
SerializeRows(rows) ==
    IF rows = << >> THEN << >>
    ELSE IF Len(rows) = 1 THEN SerializeRow(Head(rows))
    ELSE SerializeRow(Head(rows)) \o <<"\n">> \o SerializeRows(Tail(rows))

SerializeTable(t) == SerializeRows(TableGrid(t))

----------------------------------------------------------------------------
(* The markdown parser of MarkdownTableRenderer, TableView.tsx:334-335.    *)

\* markdownTable.split('\n').filter(line => line.trim())
NonBlank(line) == Trim(line) # << >>

Lines(text) == SelectSeq(Split(text, "\n"), NonBlank)

\* line.split('|').slice(1, -1).map(cell => cell.trim())
ParseLine(line) == MapTrim(SliceInner(Split(line, "|")))

ParseMarkdown(text) ==
    LET lines == Lines(text)
    IN  [i \in 1..Len(lines) |-> ParseLine(lines[i])]

----------------------------------------------------------------------------
(* calculateMerges, TableView.tsx:338-383.                                 *)

\* The "if (currentGroup.length > 1) { ... }" block at 358-365 and 374-379.
RECURSIVE MarkSpanned(_, _, _, _)
MarkSpanned(m, currentGroup, colIndex, i) ==
    IF i > Len(currentGroup) THEN m
    ELSE MarkSpanned(
            PutMerge(m, currentGroup[i], colIndex, [rowSpan |-> 1, isSpanned |-> TRUE]),
            currentGroup, colIndex, i + 1)

ProcessGroup(m, currentGroup, colIndex) ==
    IF Len(currentGroup) > 1
    THEN MarkSpanned(
            PutMerge(m, currentGroup[1], colIndex,
                     [rowSpan |-> Len(currentGroup), isSpanned |-> FALSE]),
            currentGroup, colIndex, 2)
    ELSE m

\* ScanColumn reading the cell of the column to the left (colIndex - 1).
RECURSIVE ScanColumnNeighbour(_, _, _, _, _, _)
ScanColumnNeighbour(ingredientRows, colIndex, rowIndex, currentGroup, currentValue, m) ==
    IF rowIndex >= Len(ingredientRows)
    THEN ProcessGroup(m, currentGroup, colIndex)
    ELSE LET actualRowIndex == rowIndex + 2
             cellValue == ArrayGet(ingredientRows[rowIndex + 1], colIndex - 1)
         IN  IF cellValue = currentValue /\ cellValue # EmptyString
             THEN ScanColumnNeighbour(ingredientRows, colIndex, rowIndex + 1,
                                      Append(currentGroup, actualRowIndex), currentValue, m)
             ELSE ScanColumnNeighbour(ingredientRows, colIndex, rowIndex + 1,
                                      IF cellValue # EmptyString THEN <<actualRowIndex>> ELSE << >>,
                                      cellValue,
                                      ProcessGroup(m, currentGroup, colIndex))

\* The inner loop over ingredientRows (349-371) followed by the processing
\* of the final group (374-379), for one column.
RECURSIVE ScanColumn(_, _, _, _, _, _)
ScanColumn(ingredientRows, colIndex, rowIndex, currentGroup, currentValue, m) ==
    IF rowIndex >= Len(ingredientRows)
    THEN ProcessGroup(m, currentGroup, colIndex)
    ELSE LET actualRowIndex == rowIndex + 2
             cellValue == ArrayGet(ingredientRows[rowIndex + 1], colIndex)
         IN  IF cellValue = currentValue /\ cellValue # EmptyString
             THEN ScanColumn(ingredientRows, colIndex, rowIndex + 1,
                             Append(currentGroup, actualRowIndex), currentValue, m)
             ELSE ScanColumn(ingredientRows, colIndex, rowIndex + 1,
                             IF cellValue # EmptyString THEN <<actualRowIndex>> ELSE << >>,
                             cellValue,
                             ProcessGroup(m, currentGroup, colIndex))

\* The outer loop: colIndex from 1 while colIndex < parsedRows[0].length.
RECURSIVE ScanColumns(_, _, _, _)
ScanColumns(ingredientRows, colIndex, numCols, m) ==
    IF colIndex >= numCols THEN m
    ELSE ScanColumns(ingredientRows, colIndex + 1, numCols,
                     ScanColumn(ingredientRows, colIndex, 0, << >>, EmptyString, m))

\* parsedRows[0].length throws a TypeError when parsedRows is empty.
CalculateMergesThrows(rows) == Len(rows) = 0

\* calculateMerges with the column loop started at colIndex 0.
CalculateMergesFromLabel(rows) ==
    ScanColumns(SliceFrom(rows, 2), 0, Len(rows[1]), EmptyMerges)

CalculateMerges(rows) ==
    ScanColumns(SliceFrom(rows, 2), 1, Len(rows[1]), EmptyMerges)

----------------------------------------------------------------------------
(* The rows returned by MarkdownTableRenderer, TableView.tsx:394-447.      *)
(* A rendered row is its class and the sequence of the cells that are not  *)
(* null, each with the column it comes from.                               *)

\* The cell elements with the spanned entries of the merge map rendered.
RenderCellKeepSpanned(rows, m, rowIndex, cellIndex) ==
    LET cells == rows[rowIndex + 1]
        cell == cells[cellIndex + 1]
        isPrep == rowIndex < 2
        mergeKey == <<rowIndex, cellIndex>>
        hasInfo == mergeKey \in DOMAIN m
    IN  IF cellIndex = 0
        THEN IF isPrep /\ cell # EmptyString
             THEN << [tag |-> "th", className |-> "ingredient-cell prep-cell", col |-> cellIndex,
                      colSpan |-> Len(cells), rowSpan |-> 1, text |-> cell] >>
             ELSE << [tag |-> "th", className |-> "ingredient-cell", col |-> cellIndex,
                      colSpan |-> 1, rowSpan |-> 1, text |-> cell] >>
        ELSE IF isPrep THEN << >>
        ELSE IF hasInfo /\ m[mergeKey].rowSpan > 1
             THEN << [tag |-> "td", className |-> "step-cell merged-cell", col |-> cellIndex,
                      colSpan |-> 1, rowSpan |-> m[mergeKey].rowSpan, text |-> cell] >>
             ELSE << [tag |-> "td", className |-> "step-cell", col |-> cellIndex,
                      colSpan |-> 1, rowSpan |-> 1, text |-> cell] >>

RenderCell(rows, m, rowIndex, cellIndex) ==
    LET cells == rows[rowIndex + 1]
        cell == cells[cellIndex + 1]
        isPrep == rowIndex < 2
        mergeKey == <<rowIndex, cellIndex>>
        hasInfo == mergeKey \in DOMAIN m
    IN  IF cellIndex = 0
        THEN IF isPrep /\ cell # EmptyString
             THEN << [tag |-> "th", className |-> "ingredient-cell prep-cell", col |-> cellIndex,
                      colSpan |-> Len(cells), rowSpan |-> 1, text |-> cell] >>
             ELSE << [tag |-> "th", className |-> "ingredient-cell", col |-> cellIndex,
                      colSpan |-> 1, rowSpan |-> 1, text |-> cell] >>
        ELSE IF isPrep THEN << >>
        ELSE IF hasInfo /\ m[mergeKey].isSpanned THEN << >>
        ELSE IF hasInfo /\ m[mergeKey].rowSpan > 1
             THEN << [tag |-> "td", className |-> "step-cell merged-cell", col |-> cellIndex,
                      colSpan |-> 1, rowSpan |-> m[mergeKey].rowSpan, text |-> cell] >>
             ELSE << [tag |-> "td", className |-> "step-cell", col |-> cellIndex,
                      colSpan |-> 1, rowSpan |-> 1, text |-> cell] >>

RECURSIVE RenderCells(_, _, _, _)
RenderCells(rows, m, rowIndex, cellIndex) ==
    IF cellIndex >= Len(rows[rowIndex + 1]) THEN << >>
    ELSE RenderCell(rows, m, rowIndex, cellIndex) \o RenderCells(rows, m, rowIndex, cellIndex + 1)

RenderRows(rows, m) ==
    [i \in 1..Len(rows) |->
        [className |-> IF i - 1 < 2 THEN "prep-row" ELSE "ingredient-row",
         cells |-> RenderCells(rows, m, i - 1, 0)]]

----------------------------------------------------------------------------
(* Grids the parser can return: every row is a sequence of trimmed cells,  *)
(* of any length, and the rows need not have the same length.              *)

CellValues == {EmptyString, X, Y}
Marks == {EmptyString, X}

\* A row of n cells filled with X (a prep row whose cells equal data cells).
UniformRow(n) == [i \in 1..n |-> X]

\* Data rows of exactly n cells: the label X and n - 1 step cells.
DataRowsOfLen(n, values) ==
    IF n = 0 THEN {<< >>}
    ELSE {<<X>> \o cells : cells \in [1..(n - 1) -> values]}

RaggedDataRows == UNION {DataRowsOfLen(n, Marks) : n \in 0..MaxCols}

SeqsUpTo(S, n) == UNION {[1..k -> S] : k \in 0..n}

\* Ragged grids: two prep rows of w cells, then up to MaxRows - 2 data rows
\* of 0..MaxCols cells each; and the grids of fewer than two rows.
RaggedGrids ==
    {<< >>}
    \cup {<<UniformRow(w)>> : w \in 0..MaxCols}
    \cup {<<UniformRow(w), UniformRow(w)>> \o data :
            w \in 0..MaxCols, data \in SeqsUpTo(RaggedDataRows, MaxRows - 2)}

\* Rectangular grids of a label column and one step column, with long columns.
TallGrids ==
    {<<p, q>> \o data :
        p \in DataRowsOfLen(2, {X}), q \in DataRowsOfLen(2, Marks),
        data \in SeqsUpTo(DataRowsOfLen(2, CellValues), MaxTallRows - 2)}

Grids == RaggedGrids \cup TallGrids

----------------------------------------------------------------------------
(* Specification of calculateMerges and the rendering on a parsed grid.    *)

InitMerge ==
    /\ ingredient = EmptyString
    /\ baseIngredient = EmptyString
    /\ recipe = NoRecipe
    /\ table = NoTable
    /\ markdownTable = EmptyString
    /\ parsedRows \in Grids
    /\ merges = EmptyMerges
    /\ rendered = << >>
    /\ pc = "parsed"
    /\ NoTableView
    /\ NoAuth

\* const merges = calculateMerges(); return (<table> ... </table>);
RenderParsed ==
    /\ pc = "parsed"
    /\ ~CalculateMergesThrows(parsedRows)
    /\ merges' = CalculateMerges(parsedRows)
    /\ rendered' = RenderRows(parsedRows, merges')
    /\ pc' = "rendered"
    /\ UNCHANGED <<normVars, recipe, table, markdownTable, parsedRows, viewVars, authVars>>

\* calculateMerges throws: the component returns nothing.
RenderThrows ==
    /\ pc = "parsed"
    /\ CalculateMergesThrows(parsedRows)
    /\ pc' = "threw"
    /\ UNCHANGED <<normVars, recipe, table, markdownTable, parsedRows, merges, rendered, viewVars, authVars>>

NextMerge == RenderParsed \/ RenderThrows

SpecMerge == InitMerge /\ [][NextMerge]_vars

----------------------------------------------------------------------------
(* Specification of MarkdownTableRenderer on a markdown text.              *)

Alphabet == {"|", " ", "\n", "a"}

\* The non-empty texts of at most n characters (TableView renders the
\* component only for a truthy markdown_table).
Texts(n) == UNION {[1..k -> Alphabet] : k \in 1..n}

InitParse ==
    /\ ingredient = EmptyString
    /\ baseIngredient = EmptyString
    /\ recipe = NoRecipe
    /\ table = NoTable
    /\ markdownTable \in Texts(MaxTextLen)
    /\ parsedRows = << >>
    /\ merges = EmptyMerges
    /\ rendered = << >>
    /\ pc = "props"
    /\ NoTableView
    /\ NoAuth

\* One render of MarkdownTableRenderer that returns the table element.
RenderMarkdown ==
    /\ pc = "props"
    /\ parsedRows' = ParseMarkdown(markdownTable)
    /\ ~CalculateMergesThrows(parsedRows')
    /\ merges' = CalculateMerges(parsedRows')
    /\ rendered' = RenderRows(parsedRows', merges')
    /\ pc' = "rendered"
    /\ UNCHANGED <<normVars, recipe, table, markdownTable, viewVars, authVars>>

\* One render in which calculateMerges throws the TypeError.
RenderMarkdownThrows ==
    /\ pc = "props"
    /\ parsedRows' = ParseMarkdown(markdownTable)
    /\ CalculateMergesThrows(parsedRows')
    /\ pc' = "threw"
    /\ UNCHANGED <<normVars, recipe, table, markdownTable, merges, rendered, viewVars, authVars>>

NextParse == RenderMarkdown \/ RenderMarkdownThrows

SpecParse == InitParse /\ [][NextParse]_vars

----------------------------------------------------------------------------
(* Specification of the round trip: a recipe is rendered by RecipeTable,   *)
(* the table is serialized and the text is rendered by                     *)
(* MarkdownTableRenderer.                                                  *)

IngredientSamples == {<<"2", " ", "c", "u", "p", "s", " ", "f", "l", "o", "u", "r">>, <<"1", " ", "t", "s", "p", " ", "s", "a", "l", "t">>, <<" ", "b", "u", "t", "t", "e", "r", ",", " ", "s", "o", "f", "t", "e", "n", "e", "d">>, <<"o", "i", "l", "|", "b", "u", "t", "t", "e", "r">>}
InstructionSamples == {<<"P", "r", "e", "h", "e", "a", "t", " ", "o", "v", "e", "n">>, <<"M", "i", "x", " ", "f", "l", "o", "u", "r", " ", "a", "n", "d", " ", "s", "a", "l", "t">>, <<"A", "d", "d", " ", "o", "i", "l">>}

Recipes ==
    {[ingredients |-> ings, instructions |-> steps, ingredient_groups |-> << >>] :
        ings \in SeqsUpTo(IngredientSamples, MaxIngredients),
        steps \in SeqsUpTo(InstructionSamples, MaxSteps)}

InitRoundTrip ==
    /\ ingredient = EmptyString
    /\ baseIngredient = EmptyString
    /\ recipe \in Recipes
    /\ table = NoTable
    /\ markdownTable = EmptyString
    /\ parsedRows = << >>
    /\ merges = EmptyMerges
    /\ rendered = << >>
    /\ pc = "recipe"
    /\ NoTableView
    /\ NoAuth

\* One render of RecipeTable.
RenderRecipeTable ==
    /\ pc = "recipe"
    /\ ~RecipeTableThrows(recipe)
    /\ table' = RecipeTable(recipe)
    /\ pc' = "built"
    /\ UNCHANGED <<normVars, recipe, mdVars, viewVars, authVars>>

\* The table is serialized and handed to MarkdownTableRenderer.
Serialize ==
    /\ pc = "built"
    /\ markdownTable' = SerializeTable(table)
    /\ pc' = "props"
    /\ UNCHANGED <<normVars, recipe, table, parsedRows, merges, rendered, viewVars, authVars>>

\* A render of RecipeTable that ends in a TypeError: no table is returned.
RenderRecipeTableThrows ==
    /\ pc = "recipe"
    /\ RecipeTableThrows(recipe)
    /\ pc' = "threw"
    /\ UNCHANGED <<normVars, recipe, table, mdVars, viewVars, authVars>>

NextRoundTrip == RenderRecipeTable \/ Serialize \/ RenderMarkdown

SpecRoundTrip == InitRoundTrip /\ [][NextRoundTrip]_vars

\* C7: parsing the serialization of a built table gives a grid with the
\* same number of rows, the same number of cells per row and the same cell
\* values up to trimming of the surrounding whitespace.
C7_RoundTrip ==
    (pc = "rendered" /\ table # NoTable) =>
        LET grid == TableGrid(table)
        IN  /\ Len(parsedRows) = Len(grid)
            /\ \A i \in 1..Len(grid) :
                  /\ Len(parsedRows[i]) = Len(grid[i])
                  /\ \A j \in 1..Len(grid[i]) : parsedRows[i][j] = Trim(grid[i][j])

----------------------------------------------------------------------------
(* Vocabulary of the statements about calculateMerges.                     *)

\* The cell (r, c) exists in the grid.
HasCell(rows, r, c) == r >= 0 /\ r < Len(rows) /\ c >= 0 /\ c < Len(rows[r + 1])

\* The cell (r, c) exists and holds a non-empty string.
NonEmptyCell(rows, r, c) == HasCell(rows, r, c) /\ rows[r + 1][c + 1] # EmptyString

\* Rows a..b of column c hold one identical non-empty value.
SameNonEmpty(rows, c, a, b) ==
    \A r \in a..b : NonEmptyCell(rows, r, c) /\ rows[r + 1][c + 1] = rows[a + 1][c + 1]

\* Rows a..b (a < b, data rows) are a maximal block of identical non-empty
\* values of column c.
MaximalBlock(rows, c, a, b) ==
    /\ 2 <= a /\ a < b /\ b < Len(rows)
    /\ SameNonEmpty(rows, c, a, b)
    /\ (a = 2 \/ ~SameNonEmpty(rows, c, a - 1, a))
    /\ (b = Len(rows) - 1 \/ ~SameNonEmpty(rows, c, b, b + 1))

RowIndices(rows) == 0..(Len(rows) - 1)

\* Every column index some row of the grid has.
ColumnIndices(rows) == UNION {0..(Len(rows[i]) - 1) : i \in 1..Len(rows)}

IsOrigin(m, r, c) == <<r, c>> \in DOMAIN m /\ ~m[<<r, c>>].isSpanned
IsSpanned(m, r, c) == <<r, c>> \in DOMAIN m /\ m[<<r, c>>].isSpanned

\* m annotates rows a..b of column c as one run: the origin at a, the rest spanned.
AnnotatedBlock(m, c, a, b) ==
    /\ <<a, c>> \in DOMAIN m
    /\ m[<<a, c>>] = [rowSpan |-> b - a + 1, isSpanned |-> FALSE]
    /\ \A r \in (a + 1)..b :
          <<r, c>> \in DOMAIN m /\ m[<<r, c>>] = [rowSpan |-> 1, isSpanned |-> TRUE]

\* The entries of m outside column c.
OtherColumns(m, c) == [k \in {j \in DOMAIN m : j[2] # c} |-> m[k]]

\* The grid with cell (r, c) replaced by v.
SetCell(rows, r, c, v) == [rows EXCEPT ![r + 1][c + 1] = v]

\* The grid with every cell of column c replaced by v.
SetColumn(rows, c, v) ==
    [i \in 1..Len(rows) |->
        [j \in 1..Len(rows[i]) |-> IF j = c + 1 THEN v ELSE rows[i][j]]]

\* Grids of the shape of rows that differ from it only in column c.
ColumnVariants(rows, c) ==
    {SetColumn(rows, c, v) : v \in CellValues}
    \cup {SetCell(rows, r, c, v) :
            r \in {q \in RowIndices(rows) : HasCell(rows, q, c)}, v \in CellValues}

----------------------------------------------------------------------------
(* Statements about calculateMerges.                                       *)

\* C1: every maximal block of k >= 2 consecutive data rows with identical
\* non-empty values in a column c >= 1 is annotated {rowSpan: k, isSpanned:
\* false} at its first row and {rowSpan: 1, isSpanned: true} at the other
\* k - 1 rows, also when the block ends at the last row of the table.
C1_BlocksAnnotated ==
    pc = "rendered" =>
        \A c \in ColumnIndices(parsedRows) \ {0} :
            \A a, b \in RowIndices(parsedRows) :
                MaximalBlock(parsedRows, c, a, b) => AnnotatedBlock(merges, c, a, b)

\* C2: an annotation is recorded at (r, c) only if the cell (r, c) is
\* non-empty and the data row directly above or directly below holds the
\* identical value in column c; so empty cells and runs of length 1 are not
\* annotated, and a run never reaches across an empty cell.
C2_OnlyRepeatedNonEmpty ==
    pc = "rendered" =>
        \A k \in DOMAIN merges :
            LET r == k[1]
                c == k[2]
            IN  /\ NonEmptyCell(parsedRows, r, c)
                /\ \/ r - 1 >= 2 /\ SameNonEmpty(parsedRows, c, r - 1, r)
                   \/ r + 1 < Len(parsedRows) /\ SameNonEmpty(parsedRows, c, r, r + 1)
                /\ ~merges[k].isSpanned =>
                      \A q \in r..(r + merges[k].rowSpan - 1) : NonEmptyCell(parsedRows, q, c)

\* C3: every origin entry at row r with rowSpan k is followed by exactly
\* k - 1 spanned entries at rows r+1 .. r+k-1, the k rows lie inside the
\* table and hold the same non-empty value, every spanned entry belongs to
\* exactly one origin, and the runs of a column do not overlap.
C3_RunsCoverBlocks ==
    pc = "rendered" =>
        /\ \A k \in DOMAIN merges :
              ~merges[k].isSpanned =>
                 LET r == k[1]
                     c == k[2]
                     n == merges[k].rowSpan
                 IN  /\ n >= 2
                     /\ r + n - 1 < Len(parsedRows)
                     /\ AnnotatedBlock(merges, c, r, r + n - 1)
                     /\ ~IsSpanned(merges, r + n, c)
                     /\ SameNonEmpty(parsedRows, c, r, r + n - 1)
        /\ \A k \in DOMAIN merges :
              merges[k].isSpanned =>
                 Cardinality({o \in DOMAIN merges :
                                /\ o[2] = k[2]
                                /\ ~merges[o].isSpanned
                                /\ o[1] < k[1]
                                /\ k[1] <= o[1] + merges[o].rowSpan - 1}) = 1
        /\ \A o1, o2 \in DOMAIN merges :
              (/\ o1 # o2 /\ o1[2] = o2[2]
               /\ ~merges[o1].isSpanned /\ ~merges[o2].isSpanned
               /\ o1[1] < o2[1])
              => o1[1] + merges[o1].rowSpan - 1 < o2[1]

\* C4: two grids of the same shape that differ only in the values of one
\* column c give the same merge entries in every other column.
C4_ColumnIndependence ==
    pc = "rendered" =>
        \A c \in ColumnIndices(parsedRows) :
            \A other \in ColumnVariants(parsedRows, c) :
                OtherColumns(CalculateMerges(other), c) = OtherColumns(merges, c)

\* C4 witness: a rendered grid with merged runs in two step columns, one of
\* which disappears when that column is blanked.
C4_Witness ==
    /\ pc = "rendered"
    /\ \E r1, r2 \in RowIndices(parsedRows) : IsOrigin(merges, r1, 1) /\ IsOrigin(merges, r2, 2)
    /\ CalculateMerges(SetColumn(parsedRows, 2, EmptyString)) # merges

\* C6: every key (r, c) of the merge map has r >= 2 and 1 <= c < number of
\* cells of row 0, and rows 0 and 1 are rendered as prep rows without step
\* cells, the rows from index 2 on as ingredient rows.
C6_PrepRowsAndLabelsNeverMerged ==
    pc = "rendered" =>
        /\ \A k \in DOMAIN merges : k[1] >= 2 /\ 1 <= k[2] /\ k[2] < Len(parsedRows[1])
        /\ \A i \in 1..Len(rendered) :
              /\ rendered[i].className = "prep-row" <=> i - 1 < 2
              /\ \A j \in 1..Len(rendered[i].cells) :
                    /\ i - 1 < 2 => rendered[i].cells[j].tag = "th" /\ rendered[i].cells[j].rowSpan = 1
                    /\ rendered[i].cells[j].col = 0 => rendered[i].cells[j].rowSpan = 1

\* C6 witness: the prep rows and the label column hold the value that is
\* merged in a step column from row 2 on.
C6_Witness ==
    /\ pc = "rendered"
    /\ Len(parsedRows) >= 4
    /\ \A r \in 0..3 : ArrayGet(parsedRows[r + 1], 0) = X /\ ArrayGet(parsedRows[r + 1], 1) = X
    /\ IsOrigin(merges, 2, 1)
    /\ Len(rendered) = Len(parsedRows)

----------------------------------------------------------------------------
(* Statements about the markdown parser.                                   *)

\* Positions at which a line of the text starts: 1 and after every newline.
LineStarts(text) == {i \in 1..(Len(text) + 1) : i = 1 \/ text[i - 1] = "\n"}

\* Position of the last character of the line that starts at i (i - 1 for
\* an empty line).
LineEnd(text, i) ==
    CHOOSE e \in (i - 1)..Len(text) :
        /\ \A k \in i..e : text[k] # "\n"
        /\ e = Len(text) \/ text[e + 1] = "\n"

\* The line that starts at i is neither empty nor whitespace-only.
HasContent(text, i) == \E k \in i..LineEnd(text, i) : text[k] \notin WhiteSpace

\* t is s without its leading and trailing whitespace.
IsTrimOf(t, s) ==
    \E a, b \in 0..Len(s) :
        /\ a + b <= Len(s)
        /\ \A k \in 1..a : s[k] \in WhiteSpace
        /\ \A k \in (Len(s) - b + 1)..Len(s) : s[k] \in WhiteSpace
        /\ t = SubSeq(s, a + 1, Len(s) - b)
        /\ t = << >> \/ (t[1] \notin WhiteSpace /\ t[Len(t)] \notin WhiteSpace)

\* The row of the line that starts at i is the trimmed texts between its
\* consecutive pipes, in order.
RowOfLine(text, i, row) ==
    LET pipes == {k \in i..LineEnd(text, i) : text[k] = "|"}
        p == Cardinality(pipes)
    IN  /\ Len(row) = IF p = 0 THEN 0 ELSE p - 1
        /\ \A k \in pipes :
              LET j == Cardinality({q \in pipes : q <= k})
              IN  j < p =>
                    LET next == CHOOSE q \in pipes :
                                    q > k /\ \A z \in pipes : z > k => q <= z
                    IN  IsTrimOf(row[j], SubSeq(text, k + 1, next - 1))

\* C5: the text is split on newlines, empty and whitespace-only lines give
\* no row, and every other line gives the row of the trimmed texts between
\* its consecutive pipes (the fragments before the first and after the last
\* pipe are dropped): a line with p pipes gives p - 1 cells in their order,
\* and the rows are in line order.
C5_ParsingContract ==
    pc \in {"rendered", "threw"} =>
        LET starts == {i \in LineStarts(markdownTable) : HasContent(markdownTable, i)}
        IN  /\ Len(parsedRows) = Cardinality(starts)
            /\ \A i \in starts :
                  RowOfLine(markdownTable, i,
                            parsedRows[Cardinality({q \in starts : q <= i})])

\* C5 witness: a text with a blank line, parsed into two rows, the first of
\* two different cells of which one was trimmed.
C5_Witness ==
    /\ pc = "rendered"
    /\ Len(parsedRows) = 2
    /\ \E k \in 1..(Len(markdownTable) - 1) :
          markdownTable[k] = "\n" /\ markdownTable[k + 1] = "\n"
    /\ SubSeq(markdownTable, 1, 3) = <<"|", " ", "a">>
    /\ parsedRows[1] = << <<"a">>, EmptyString >>

\* C8: a text with fewer than 2 rows after the blank lines are discarded, or
\* with rows of different numbers of cells, is rejected with an error and no
\* merge map is computed for it.
C8_MalformedRejected ==
    (/\ pc \in {"rendered", "threw"}
     /\ \/ Len(parsedRows) < 2
        \/ \E i, j \in 1..Len(parsedRows) : Len(parsedRows[i]) # Len(parsedRows[j]))
    => pc = "threw"

----------------------------------------------------------------------------
(* Specification of getBaseIngredient on drawn ingredient texts.           *)

Space == <<" ">>
CommaSpace == <<",", " ">>

Quantities == {<<"2">>, <<"1", "/", "2">>, <<"1", ".", "5">>}
Units == {<<"c", "u", "p", "s">>, <<"t", "b", "s", "p">>, <<"t", "s", "p">>, <<"g">>}
Names == {<<"f", "l", "o", "u", "r">>, <<"b", "u", "t", "t", "e", "r">>, <<"g", "a", "r", "l", "i", "c">>}
DrawnQualifiers == {<<"s", "i", "f", "t", "e", "d">>, <<"m", "e", "l", "t", "e", "d">>, <<"s", "o", "f", "t", "e", "n", "e", "d">>, <<"d", "i", "v", "i", "d", "e", "d">>}

\* A part followed by a space, or nothing when the part is absent.
Lead(part) == IF part = EmptyString THEN EmptyString ELSE part \o Space

\* The qualifiers that follow the name, each after a comma and a space.
RECURSIVE Trail(_)
Trail(posts) ==
    IF posts = << >> THEN EmptyString ELSE CommaSpace \o Head(posts) \o Trail(Tail(posts))

\* "<quantity> <unit> <qualifier> <name>, <qualifier>, ..." with the absent
\* parts left out.
IngredientText(quantity, unit, pre, name, posts) ==
    Lead(quantity) \o Lead(unit) \o Lead(pre) \o name \o Trail(posts)

IngredientTexts ==
    {IngredientText(q, u, pre, n, posts) :
        q \in Quantities \cup {EmptyString}, u \in Units \cup {EmptyString},
        pre \in DrawnQualifiers \cup {EmptyString}, n \in Names,
        posts \in SeqsUpTo(DrawnQualifiers, MaxQualifiers)}

InitNorm ==
    /\ ingredient \in IngredientTexts
    /\ baseIngredient = EmptyString
    /\ recipe = NoRecipe
    /\ table = NoTable
    /\ markdownTable = EmptyString
    /\ parsedRows = << >>
    /\ merges = EmptyMerges
    /\ rendered = << >>
    /\ pc = "ingredient"
    /\ NoTableView
    /\ NoAuth

\* One call of getBaseIngredient.
CallGetBaseIngredient ==
    /\ pc = "ingredient"
    /\ baseIngredient' = GetBaseIngredient(ingredient)
    /\ pc' = "normalized"
    /\ UNCHANGED <<ingredient, recipe, table, mdVars, viewVars, authVars>>

NextNorm == CallGetBaseIngredient

SpecNorm == InitNorm /\ [][NextNorm]_vars

\* C9: for '<quantity> <unit> <name>' with at most one qualifier, before the
\* name or after a comma, getBaseIngredient returns exactly <name>, without
\* leading or trailing whitespace ('2 cups flour, sifted' gives 'flour').
C9_ReturnsName ==
    pc = "normalized" =>
        \A q \in Quantities, u \in Units, n \in Names :
            \A pre \in DrawnQualifiers \cup {EmptyString} :
                \A posts \in SeqsUpTo(DrawnQualifiers, 1) :
                    (pre = EmptyString \/ posts = << >>)
                    /\ ingredient = IngredientText(q, u, pre, n, posts)
                    => baseIngredient = n

\* C10: no qualifier of the fixed set remains in the result, wherever it
\* stands relative to a comma and however many the ingredient carries.
C10_NoQualifierRemains ==
    pc = "normalized" => \A w \in Qualifiers : ~Includes(baseIngredient, w)

\* C11: after the leading quantity only a unit of the vocabulary is removed.
\* When the word after the quantity is the name or a qualifier, only the
\* quantity and its space are removed, so a text without qualifiers gives
\* the name whole (a name that begins with the letters of a unit included);
\* when the text has no leading quantity the first expression removes nothing.
C11_OnlyVocabularyUnits ==
    pc = "normalized" =>
        \A pre \in DrawnQualifiers \cup {EmptyString}, n \in Names :
            \A posts \in SeqsUpTo(DrawnQualifiers, MaxQualifiers) :
                /\ \A q \in Quantities :
                      ingredient = IngredientText(q, EmptyString, pre, n, posts) =>
                          /\ StripQuantityUnit(ingredient) = IngredientText(EmptyString, EmptyString, pre, n, posts)
                          /\ (pre = EmptyString /\ posts = << >>) => baseIngredient = n
                /\ \A u \in Units \cup {EmptyString} :
                      ingredient = IngredientText(EmptyString, u, pre, n, posts) =>
                          /\ StripQuantityUnit(ingredient) = ingredient
                          /\ baseIngredient = StripQualifier(ingredient)

----------------------------------------------------------------------------
(* Specification of RecipeTable on drawn recipes: one render of a recipe    *)
(* prop, which returns a table or ends in an exception.                     *)

\* Ingredient lines: a quantity, a unit and a capitalised name; a bare name;
\* a quantity and a unit only; a name that is a key of Object.prototype.
TableIngredients == {<<"2", " ", "c", "u", "p", "s", " ", "F", "l", "o", "u", "r">>, <<"s", "a", "l", "t">>, <<"2", " ", "c", "u", "p", "s">>, <<"c", "o", "n", "s", "t", "r", "u", "c", "t", "o", "r">>}

\* Instruction steps: the two prep words in different letter cases, one of
\* them in a step that names an ingredient; a step that names one
\* ingredient in another letter case and one inside a longer word.
TableInstructions == {<<"P", "r", "e", "h", "e", "a", "t", " ", "o", "v", "e", "n", " ", "t", "o", " ", "3", "5", "0", "°", "F">>, <<"A", "d", "d", " ", "f", "l", "o", "u", "r", " ", "a", "n", "d", " ", "u", "n", "s", "a", "l", "t", "e", "d", " ", "b", "u", "t", "t", "e", "r">>, <<"G", "A", "T", "H", "E", "R", " ", "t", "h", "e", " ", "s", "a", "l", "t">>}

GroupInstructions == {<<"A", "d", "d", " ", "f", "l", "o", "u", "r", " ", "a", "n", "d", " ", "u", "n", "s", "a", "l", "t", "e", "d", " ", "b", "u", "t", "t", "e", "r">>, <<"G", "A", "T", "H", "E", "R", " ", "t", "h", "e", " ", "s", "a", "l", "t">>}

\* recipe.ingredients of the recipes drawn with ingredient_groups.
GroupRecipeIngredients == {<< >>, <<<<"s", "a", "l", "t">>, <<"2", " ", "c", "u", "p", "s", " ", "F", "l", "o", "u", "r">>>>}

\* Ingredient groups: an empty one, and groups that repeat a line or list
\* the lines in another order than recipe.ingredients.
GroupSamples ==
    {[purpose |-> <<"D", "o", "u", "g", "h">>, ingredients |-> << >>],
     [purpose |-> <<"S", "a", "u", "c", "e">>, ingredients |-> <<<<"s", "a", "l", "t">>>>],
     [purpose |-> <<"D", "o", "u", "g", "h">>, ingredients |-> <<<<"2", " ", "c", "u", "p", "s", " ", "F", "l", "o", "u", "r">>, <<"s", "a", "l", "t">>>>],
     [purpose |-> <<"S", "a", "u", "c", "e">>, ingredients |-> <<<<"s", "a", "l", "t">>, <<"s", "a", "l", "t">>>>]}

\* recipe.ingredient_groups: the type puts no relation between the groups
\* and recipe.ingredients, so the groups are drawn on their own.
IngredientGroups == SeqsUpTo(GroupSamples, MaxGroups)

\* The recipe of the end-to-end scenario.
ScenarioRecipe ==
    [ingredients |-> <<<<"2", " ", "c", "u", "p", "s", " ", "f", "l", "o", "u", "r">>, <<"1", " ", "t", "s", "p", " ", "s", "a", "l", "t">>>>,
     instructions |-> <<<<"P", "r", "e", "h", "e", "a", "t", " ", "o", "v", "e", "n", " ", "t", "o", " ", "3", "5", "0", "F">>, <<"M", "i", "x", " ", "f", "l", "o", "u", "r", " ", "a", "n", "d", " ", "s", "a", "l", "t", " ", "t", "o", "g", "e", "t", "h", "e", "r">>, <<"B", "a", "k", "e", " ", "f", "o", "r", " ", "3", "0", " ", "m", "i", "n", "u", "t", "e", "s">>>>,
     ingredient_groups |-> << >>]

\* Recipes without ingredient_groups over the full samples, recipes with
\* ingredient_groups over the smaller ones, and the scenario recipe.
TableRecipes ==
    {ScenarioRecipe} \cup
    {[ingredients |-> ings, instructions |-> steps, ingredient_groups |-> << >>] :
        ings \in SeqsUpTo(TableIngredients, MaxIngredients),
        steps \in SeqsUpTo(TableInstructions, MaxSteps)}
    \cup
    {[ingredients |-> ings, instructions |-> steps, ingredient_groups |-> groups] :
        ings \in GroupRecipeIngredients,
        steps \in SeqsUpTo(GroupInstructions, MaxSteps),
        groups \in IngredientGroups}

InitTable ==
    /\ ingredient = EmptyString
    /\ baseIngredient = EmptyString
    /\ recipe \in TableRecipes
    /\ table = NoTable
    /\ markdownTable = EmptyString
    /\ parsedRows = << >>
    /\ merges = EmptyMerges
    /\ rendered = << >>
    /\ pc = "recipe"
    /\ NoTableView
    /\ NoAuth

NextTable == RenderRecipeTable \/ RenderRecipeTableThrows

SpecTable == InitTable /\ [][NextTable]_vars

----------------------------------------------------------------------------
(* Vocabulary of the statements about RecipeTable.                         *)

\* c and d are one character, or the two letter cases of one letter.
SameLetter(c, d) ==
    c = d \/ \E i \in 1..26 : {c, d} = {UpperLetters[i], LowerLetters[i]}

\* word occurs in text in some mix of letter cases.
ContainsAnyCase(text, word) ==
    \E k \in 0..(Len(text) - Len(word)) :
        \A j \in 1..Len(word) : SameLetter(text[k + j], word[j])

\* The step text holds one of the two prep words in some letter case.
HoldsPrepWord(text) ==
    \/ ContainsAnyCase(text, <<"p", "r", "e", "h", "e", "a", "t">>)
    \/ ContainsAnyCase(text, <<"g", "a", "t", "h", "e", "r">>)

\* The rows of the built table, by index.
TableRowIndices == 1..Len(table.rows)

\* The steps of the recipe, by 1-based position.
StepIndices == 1..Len(recipe.instructions)

MarkedUsed(k, i) == table.rows[k].cells[i].used /\ table.rows[k].cells[i].text = Bullet

\* Row k of the built table is empty in the column of step i.
MarkedEmpty(k, i) == ~table.rows[k].cells[i].used /\ table.rows[k].cells[i].text = EmptyString

\* The base token of the ingredient of row k.
RowToken(k) == GetBaseIngredient(table.rows[k].ingredient)

C14_EmptyTokenNeverMatches ==
    pc = "built" =>
        \A k \in TableRowIndices :
            RowToken(k) = EmptyString =>
                \A i \in StepIndices :
                    MarkedEmpty(k, i) /\ ~table.rows[k].cells[i].grouped

\* C15: in every ingredient row the cell in the column of a prep-flagged
\* step is empty, also when the step text holds the base token of the row.
C15_PrepStepsExcluded ==
    pc = "built" =>
        \A k \in TableRowIndices, i \in StepIndices :
            IsPrepStep(recipe.instructions[i]) => MarkedEmpty(k, i)

\* The decimal numeral of a positive integer.
RECURSIVE DecimalText(_)
DecimalText(n) ==
    IF n < 10 THEN <<Digits[n + 1]>> ELSE DecimalText(n \div 10) \o <<Digits[(n % 10) + 1]>>

\* 'Step n'.
StepLabel(n) == <<"S", "t", "e", "p", " ">> \o DecimalText(n)

IngredientLabel == <<"I", "n", "g", "r", "e", "d", "i", "e", "n", "t", "s">>
GroupLabel == <<"G", "r", "o", "u", "p">>

\* The number of headers that precede the ingredient-label header.
GroupHeaders == IF Len(recipe.ingredient_groups) > 0 THEN 1 ELSE 0

\* C16 as stated: for every recipe the header row is the ingredient-label
\* header followed by 'Step 1', ..., 'Step N' in instruction order, and
\* nothing else.
C16_Headers ==
    pc = "built" =>
        /\ Len(table.headers) = 1 + Len(recipe.instructions)
        /\ table.headers[1] = IngredientLabel
        /\ \A i \in StepIndices : table.headers[1 + i] = StepLabel(i)

\* C16 amended: the header row is the ingredient-label header followed by
\* 'Step 1', ..., 'Step N' in instruction order, preceded by one 'Group'
\* header exactly when the recipe has a non-empty ingredient_groups.
C16_HeadersAmended ==
    pc = "built" =>
        /\ Len(table.headers) = GroupHeaders + 1 + Len(recipe.instructions)
        /\ GroupHeaders = 1 => table.headers[1] = GroupLabel
        /\ table.headers[GroupHeaders + 1] = IngredientLabel
        /\ \A i \in StepIndices : table.headers[GroupHeaders + 1 + i] = StepLabel(i)

\* A built table of a recipe with ingredient_groups and two or more steps.
C16_Witness ==
    /\ pc = "built"
    /\ Len(recipe.ingredient_groups) > 0
    /\ Len(recipe.instructions) >= 2
    /\ Len(table.headers) = 2 + Len(recipe.instructions)

\* C17 as stated: every row has exactly len(headers) - 1 step cells, with
\* or without ingredient_groups, the cell at position i being the cell of
\* step i.
C17_RowShape ==
    pc = "built" =>
        \A k \in TableRowIndices :
            /\ Len(table.rows[k].cells) = Len(table.headers) - 1
            /\ \A i \in StepIndices :
                  table.rows[k].cells[i].used <=> ContainsAnyCase(recipe.instructions[i], RowToken(k))

\* C17 amended: every row has exactly one step cell per 'Step n' header,
\* the cell at position i being the cell of step i; that is len(headers) - 1
\* cells without ingredient_groups and len(headers) - 2 with them.
C17_RowShapeAmended ==
    pc = "built" =>
        \A k \in TableRowIndices :
            /\ Len(table.rows[k].cells) = Len(recipe.instructions)
            /\ Len(table.rows[k].cells) = Len(table.headers) - 1 - GroupHeaders
            /\ \A i \in StepIndices :
                  table.rows[k].cells[i].used <=> ContainsAnyCase(recipe.instructions[i], RowToken(k))

\* A built table with a Group header, two rows and two step columns in
\* which a row is used in one step and not in the other.
C17_Witness ==
    /\ pc = "built"
    /\ table.hasGroups
    /\ Len(table.rows) >= 2
    /\ Len(recipe.instructions) = 2
    /\ \E k \in TableRowIndices :
          table.rows[k].cells[1].used # table.rows[k].cells[2].used

\* C18 as stated: there is exactly one row per entry of recipe.ingredients,
\* duplicates included, in the order of that list, labelled with the entry
\* as authored.
C18_RowOrder ==
    pc = "built" =>
        /\ Len(table.rows) = Len(recipe.ingredients)
        /\ \A k \in 1..Len(recipe.ingredients) :
              table.rows[k].ingredient = recipe.ingredients[k]

\* The number of ingredients listed by the first g groups of the recipe.
RECURSIVE ListedBefore(_)
ListedBefore(g) ==
    IF g = 0 THEN 0
    ELSE ListedBefore(g - 1) + Len(recipe.ingredient_groups[g].ingredients)

\* C18 amended: without ingredient_groups the rows are the entries of
\* recipe.ingredients; with a non-empty ingredient_groups they are the
\* entries of the ingredient lists of the groups, group after group; in
\* both cases one row per entry, duplicates included, in list order,
\* labelled with the entry as authored.
C18_RowOrderAmended ==
    pc = "built" =>
        IF Len(recipe.ingredient_groups) = 0
        THEN /\ Len(table.rows) = Len(recipe.ingredients)
             /\ \A k \in 1..Len(recipe.ingredients) :
                   table.rows[k].ingredient = recipe.ingredients[k]
        ELSE /\ Len(table.rows) = ListedBefore(Len(recipe.ingredient_groups))
             /\ \A g \in 1..Len(recipe.ingredient_groups) :
                   \A i \in 1..Len(recipe.ingredient_groups[g].ingredients) :
                       table.rows[ListedBefore(g - 1) + i].ingredient =
                           recipe.ingredient_groups[g].ingredients[i]

\* A built table of two groups that list an ingredient line twice, one
\* with a quantity and a unit, in an order that is not that of
\* recipe.ingredients.
C18_Witness ==
    /\ pc = "built"
    /\ Len(recipe.ingredient_groups) = 2
    /\ Len(table.rows) >= 3
    /\ \E k1, k2 \in TableRowIndices :
          k1 # k2 /\ table.rows[k1].ingredient = table.rows[k2].ingredient
    /\ \E k \in TableRowIndices : RowToken(k) # table.rows[k].ingredient
    /\ Len(recipe.ingredients) = 2
    /\ table.rows[1].ingredient # recipe.ingredients[1]

\* C19: whenever a step of the recipe is prep-flagged, the built table has
\* exactly one row labelled 'PREP TASKS' and it is the first row; the table
\* view renders a row as a prep row exactly when it is that row.
C19_PrepTasksRow ==
    (pc = "built" /\ \E i \in StepIndices : IsPrepStep(recipe.instructions[i])) =>
        /\ Cardinality({k \in TableRowIndices : table.rows[k].ingredient = PrepTasks}) = 1
        /\ table.rows[1].ingredient = PrepTasks
        /\ \A k \in TableRowIndices : RowClassName(table.rows[k]) = "prep-row" <=> k = 1

\* The ingredient lines the recipe lists for the table: those of the groups
\* when it has ingredient_groups, those of recipe.ingredients otherwise.
ListedLines ==
    IF Len(recipe.ingredient_groups) = 0
    THEN {recipe.ingredients[k] : k \in 1..Len(recipe.ingredients)}
    ELSE UNION {{recipe.ingredient_groups[g].ingredients[i] :
                    i \in 1..Len(recipe.ingredient_groups[g].ingredients)} :
                g \in 1..Len(recipe.ingredient_groups)}

\* The number of ingredient lines the recipe lists for the table.
ListedCount ==
    IF Len(recipe.ingredient_groups) = 0 THEN Len(recipe.ingredients)
    ELSE ListedBefore(Len(recipe.ingredient_groups))

\* The base token of the line occurs in no step of the recipe.
MatchesNoStep(line) ==
    \A i \in StepIndices : ~ContainsAnyCase(recipe.instructions[i], GetBaseIngredient(line))

\* C20: a render of a degenerate recipe ends in a table, never in an
\* exception: without ingredients the table has the full header row and no
\* row; without instructions it has one row per ingredient and no step
\* cell; an ingredient that matches no step has a row of empty step cells.
C20_DegenerateRecipes ==
    pc \in {"built", "threw"} =>
        /\ (recipe.ingredients = << >> /\ ListedCount = 0) =>
              /\ pc = "built"
              /\ Len(table.headers) = GroupHeaders + 1 + Len(recipe.instructions)
              /\ table.rows = << >>
        /\ recipe.instructions = << >> =>
              /\ pc = "built"
              /\ Len(table.rows) = ListedCount
              /\ \A k \in TableRowIndices : table.rows[k].cells = << >>
        /\ \A line \in ListedLines :
              MatchesNoStep(line) =>
                  /\ pc = "built"
                  /\ \E k \in TableRowIndices : table.rows[k].ingredient = line
                  /\ \A k \in TableRowIndices, i \in StepIndices :
                        table.rows[k].ingredient = line => MarkedEmpty(k, i)

\* Every ingredient row of the scenario is used in 'Step 2' and empty in
\* 'Step 1' and 'Step 3'.
ScenarioIngredientRows ==
    \A k \in TableRowIndices :
        table.rows[k].ingredient \in {recipe.ingredients[1], recipe.ingredients[2]} =>
            MarkedEmpty(k, 1) /\ MarkedUsed(k, 2) /\ MarkedEmpty(k, 3)

\* C21: the table built for the scenario recipe has a prep row that covers
\* step 1, and a row for each of the two ingredients that is used in the
\* 'Step 2' column only.
C21_EndToEndScenario ==
    (pc = "built" /\ recipe = ScenarioRecipe) =>
        /\ \A n \in 1..2 : \E k \in TableRowIndices : table.rows[k].ingredient = recipe.ingredients[n]
        /\ ScenarioIngredientRows
        /\ \E k \in TableRowIndices :
              /\ RowClassName(table.rows[k]) = "prep-row"
              /\ table.rows[k].cells[1].text # EmptyString

----------------------------------------------------------------------------
(* TableView, TableView.tsx:458-813: the state of the component, the       *)
(* toggle button, generateTable and the choice of the renderer.  Titles    *)
(* and messages, which are only compared as wholes, are written as plain   *)
(* strings.                                                                *)

MarkdownFormat == <<"m", "a", "r", "k", "d", "o", "w", "n">>
OtherFormat == <<"j", "s", "o", "n">>

\* A value is truthy in a JavaScript condition: a string that is neither
\* undefined nor empty.
TruthyString(v) == v # Undefined /\ v # EmptyString

TableContentFormatOnly(data) ==
    IF data.format = MarkdownFormat THEN "markdown"
    ELSE IF data.table # Absent THEN "legacy"
    ELSE "none"

\* The branch of the table content (740-806): the markdown renderer, the
\* headers/rows renderer of a table object, or 'No table data available'.
TableContent(data) ==
    IF data.format = MarkdownFormat /\ TruthyString(data.markdown_table) THEN "markdown"
    ELSE IF data.table # Absent THEN "legacy"
    ELSE "none"

\* What the section shows for the state of the component (701-702): the
\* table container only when showTable && tableData.
Shown ==
    IF showTable /\ tableData # Null THEN TableContent(tableData) ELSE "hidden"

\* The TableData generateTable stores for the body of an OK response
\* (490-504).
StoredData(data) ==
    IF data.format = MarkdownFormat /\ TruthyString(data.markdown_table)
    THEN [title |-> "Recipe Cooking Workflow", format |-> MarkdownFormat,
          markdown_table |-> data.markdown_table, table |-> Absent]
    ELSE data

\* A catch clause that stores no message.
FailureMessageDropped(failure) == ""

\* The message the catch clause stores for a failure (506): the message of
\* an Error, the fixed message for any other thrown value.
FailureMessage(failure) ==
    IF failure.isError THEN failure.message ELSE "Failed to generate table"

\* A toggle button that is never disabled.
ButtonNeverDisabled == FALSE

\* disabled={loading} of the toggle button (672).
ButtonDisabled == loading

\* if (cell.rowspan): the field is present and not 0.
TruthyNumber(field) == field # << >> /\ field[1] # 0

\* if (cell.spanned): the field is present and true.
TruthyBoolean(field) == field # << >> /\ field[1]

\* The cell elements with the rowspan tested before the spanned flag.
LegacyCellRowspanFirst(cell) ==
    IF cell.isObject
    THEN IF TruthyNumber(cell.rowspan)
         THEN << [className |-> "step-cell", rowSpan |-> <<cell.rowspan[1]>>, text |-> cell.text] >>
         ELSE IF TruthyBoolean(cell.spanned) THEN << >>
         ELSE << [className |-> "step-cell", rowSpan |-> << >>, text |-> cell.text] >>
    ELSE << [className |-> "step-cell", rowSpan |-> << >>, text |-> cell.text] >>

\* The elements one cell of a row of a table object renders to (765-797):
\* none for a spanned object cell, a <td> with rowSpan for an object cell
\* with a rowspan, an ordinary <td> for any other object cell and for a
\* string cell.  A cell is [isObject, text, rowspan, spanned]; an absent
\* optional field is << >>.
LegacyCell(cell) ==
    IF cell.isObject
    THEN IF TruthyBoolean(cell.spanned) THEN << >>
         ELSE IF TruthyNumber(cell.rowspan)
              THEN << [className |-> "step-cell", rowSpan |-> <<cell.rowspan[1]>>, text |-> cell.text] >>
         ELSE << [className |-> "step-cell", rowSpan |-> << >>, text |-> cell.text] >>
    ELSE << [className |-> "step-cell", rowSpan |-> << >>, text |-> cell.text] >>

\* row.cells.map(...) of one row.
RECURSIVE LegacyCells(_)
LegacyCells(cells) ==
    IF cells = << >> THEN << >>
    ELSE LegacyCell(Head(cells)) \o LegacyCells(Tail(cells))

\* The <tr> elements of the body of a table object (762-799).
LegacyRows(t) ==
    [i \in 1..Len(t.rows) |->
        [className |-> RowClassName(t.rows[i]),
         label |-> t.rows[i].ingredient,
         cells |-> LegacyCells(t.rows[i].cells)]]

\* The rows the section shows for the state of the component: those of the
\* stored table object when the headers/rows renderer is chosen (740-806).
ShownRows ==
    IF Shown = "legacy" THEN LegacyRows(tableData.table) ELSE << >>

----------------------------------------------------------------------------
(* The bodies of the OK responses of /api/parse-to-table and the failures  *)
(* of a request.                                                           *)

StringCell(text) == [isObject |-> FALSE, text |-> text, rowspan |-> << >>, spanned |-> << >>]
ObjectCell(text, rowspan, spanned) == [isObject |-> TRUE, text |-> text, rowspan |-> rowspan, spanned |-> spanned]

\* TableCell (part_011:179-183): strings, and objects with and without the
\* optional fields.
TableCells ==
    {StringCell(X), StringCell(EmptyString),
     ObjectCell(X, << >>, << >>), ObjectCell(<<"m", "i", "x">>, <<2>>, << >>), ObjectCell(X, <<0>>, <<FALSE>>),
     ObjectCell(X, << >>, <<TRUE>>), ObjectCell(X, <<2>>, <<TRUE>>)}

\* WorkflowTable (part_011:190-193): no row, or one row of drawn cells
\* under either kind of label.
WorkflowTables ==
    {[headers |-> <<<<"I", "n", "g", "r", "e", "d", "i", "e", "n", "t">>>>, rows |-> << >>]} \cup
    {[headers |-> <<<<"I", "n", "g", "r", "e", "d", "i", "e", "n", "t">>>> \o [i \in 1..Len(cells) |-> <<"S", "t", "e", "p", " ">> \o NumberText(i)],
      rows |-> << [ingredient |-> label, cells |-> cells] >>] :
        label \in {PrepTasks, <<"s", "a", "l", "t">>}, cells \in SeqsUpTo(TableCells, MaxCells)}

\* A markdown_table of two lines.
MarkdownSample == <<"|", "a", "|", "\n", "|", "b", "|">>

\* TableData (part_011:195-200) with each optional field absent or present.
ResponseBodies ==
    {[title |-> "Workflow", format |-> f, markdown_table |-> m, table |-> t] :
        f \in {Undefined, MarkdownFormat, OtherFormat},
        m \in {Undefined, EmptyString, MarkdownSample},
        t \in {Absent} \cup WorkflowTables}

\* What the try block can throw (469-489): the rejection of fetch, the
\* Error of a response that is not OK, the rejection of response.json().
Failures ==
    {[isError |-> TRUE, message |-> "Failed to fetch"],
     [isError |-> TRUE, message |-> "Failed to generate table"],
     [isError |-> TRUE, message |-> "Unexpected end of JSON input"],
     [isError |-> FALSE, message |-> "aborted"]}

----------------------------------------------------------------------------
(* Specification of one TableView: clicks on the toggle button and the     *)
(* outcomes of its requests.  The state updates that follow an await are   *)
(* applied in one render where React batches them and one render per       *)
(* setter where it does not; both are modelled.                            *)

viewIdle == <<ingredient, baseIngredient, recipe, table, markdownTable, parsedRows, merges, rendered, pc, authVars>>

InitView ==
    /\ ingredient = EmptyString
    /\ baseIngredient = EmptyString
    /\ recipe = NoRecipe
    /\ table = NoTable
    /\ markdownTable = EmptyString
    /\ parsedRows = << >>
    /\ merges = EmptyMerges
    /\ rendered = << >>
    /\ pc = "view"
    /\ NoTableView
    /\ NoAuth

\* A click that flips showTable whether or not table data is stored.
ToggleTableUnguarded ==
    /\ pc = "view"
    /\ handler = "idle"
    /\ ~ButtonDisabled
    /\ showTable' = ~showTable
    /\ UNCHANGED <<tableData, loading, error, received, inFlight, issued, handler>>
    /\ UNCHANGED <<savingImage, viewIdle>>

\* A click on the toggle button (toggleTable, 512-518, and generateTable up
\* to its first await, 466-479): with table data the visibility flips;
\* without, loading is set, error is cleared and the request is sent.
ToggleTable ==
    /\ pc = "view"
    /\ handler = "idle"
    /\ ~ButtonDisabled
    /\ IF tableData # Null
       THEN /\ showTable' = ~showTable
            /\ UNCHANGED <<tableData, loading, error, received, inFlight, issued, handler>>
       ELSE /\ issued < MaxRequests
            /\ loading' = TRUE
            /\ error' = ""
            /\ inFlight' = inFlight + 1
            /\ issued' = issued + 1
            /\ UNCHANGED <<tableData, showTable, received, handler>>
    /\ UNCHANGED <<savingImage, savingImage, viewIdle>>

\* An OK response with a JSON body, its three updates in one render
\* (481-509).
GenerateTableResolves ==
    /\ pc = "view"
    /\ handler = "idle"
    /\ inFlight > 0
    /\ \E data \in ResponseBodies :
          /\ received' = data
          /\ tableData' = StoredData(data)
    /\ showTable' = TRUE
    /\ loading' = FALSE
    /\ inFlight' = inFlight - 1
    /\ UNCHANGED <<error, issued, handler, savingImage, viewIdle>>

\* A failed request, its two updates in one render (505-509).
GenerateTableRejects ==
    /\ pc = "view"
    /\ handler = "idle"
    /\ inFlight > 0
    /\ \E failure \in Failures : error' = FailureMessage(failure)
    /\ loading' = FALSE
    /\ inFlight' = inFlight - 1
    /\ UNCHANGED <<tableData, showTable, received, issued, handler, savingImage, viewIdle>>

\* An OK response with a JSON body, rendered after setTableData (492-503).
SetTableData ==
    /\ pc = "view"
    /\ handler = "idle"
    /\ inFlight > 0
    /\ \E data \in ResponseBodies :
          /\ received' = data
          /\ tableData' = StoredData(data)
    /\ inFlight' = inFlight - 1
    /\ handler' = "setShowTable"
    /\ UNCHANGED <<loading, error, showTable, issued, savingImage, viewIdle>>

\* setShowTable(true) (504), rendered on its own.
SetShowTable ==
    /\ pc = "view"
    /\ handler = "setShowTable"
    /\ showTable' = TRUE
    /\ handler' = "setLoading"
    /\ UNCHANGED <<tableData, loading, error, received, inFlight, issued, savingImage, viewIdle>>

\* A failed request, rendered after setError (506).
SetError ==
    /\ pc = "view"
    /\ handler = "idle"
    /\ inFlight > 0
    /\ \E failure \in Failures : error' = FailureMessage(failure)
    /\ inFlight' = inFlight - 1
    /\ handler' = "setLoading"
    /\ UNCHANGED <<tableData, loading, showTable, received, issued, savingImage, viewIdle>>

\* setLoading(false) of the finally clause (508), rendered on its own.
SetLoading ==
    /\ pc = "view"
    /\ handler = "setLoading"
    /\ loading' = FALSE
    /\ handler' = "idle"
    /\ UNCHANGED <<tableData, error, showTable, received, inFlight, issued, savingImage, viewIdle>>

\* The messages saveAsImage stores when the capture fails (660).
SaveFailureMessages ==
    {"Failed to save image: Workflow table element not found", "Failed to save image: Unknown error"}

\* A click on the Save Image button (saveAsImage up to its first await,
\* 520-532); the button is rendered with the shown table (701-710).
SaveAsImage ==
    /\ pc = "view"
    /\ handler = "idle"
    /\ showTable /\ tableData # Null
    /\ ~savingImage
    /\ savingImage' = TRUE
    /\ UNCHANGED <<tableData, loading, error, showTable, received, inFlight, issued, handler, viewIdle>>

\* The capture succeeds (finally clause, 661-663).
SaveAsImageResolves ==
    /\ pc = "view"
    /\ handler = "idle"
    /\ savingImage
    /\ savingImage' = FALSE
    /\ UNCHANGED <<tableData, loading, error, showTable, received, inFlight, issued, handler, viewIdle>>

\* The capture fails, its two updates in one render (654-663).
SaveAsImageRejects ==
    /\ pc = "view"
    /\ handler = "idle"
    /\ savingImage
    /\ error' \in SaveFailureMessages
    /\ savingImage' = FALSE
    /\ UNCHANGED <<tableData, loading, showTable, received, inFlight, issued, handler, viewIdle>>

\* The capture fails, rendered after setError (660).
SetSaveError ==
    /\ pc = "view"
    /\ handler = "idle"
    /\ savingImage
    /\ error' \in SaveFailureMessages
    /\ handler' = "setSavingImage"
    /\ UNCHANGED <<tableData, loading, showTable, savingImage, received, inFlight, issued, viewIdle>>

\* setSavingImage(false) of the finally clause (662), rendered on its own.
SetSavingImage ==
    /\ pc = "view"
    /\ handler = "setSavingImage"
    /\ savingImage' = FALSE
    /\ handler' = "idle"
    /\ UNCHANGED <<tableData, loading, error, showTable, received, inFlight, issued, viewIdle>>

NextView ==
    \/ ToggleTable
    \/ GenerateTableResolves
    \/ GenerateTableRejects
    \/ SetTableData
    \/ SetShowTable
    \/ SetError
    \/ SetLoading
    \/ SaveAsImage
    \/ SaveAsImageResolves
    \/ SaveAsImageRejects
    \/ SetSaveError
    \/ SetSavingImage

SpecView == InitView /\ [][NextView]_vars

----------------------------------------------------------------------------
(* Claims about TableView.                                                  *)

\* The body of a response names the markdown format and carries a markdown
\* table of at least one character.
IsMarkdownResponse(data) ==
    /\ data.format = <<"m", "a", "r", "k", "d", "o", "w", "n">>
    /\ data.markdown_table # Undefined
    /\ Len(data.markdown_table) > 0

\* C22: whenever the table container is shown, a received response with
\* format 'markdown' and a non-empty markdown_table is rendered by the
\* markdown renderer, also when it carries a table field; any other response
\* with a table field is rendered by the headers/rows renderer; a response
\* with neither shows 'No table data available'.
C22_BothResponseShapes ==
    (showTable /\ tableData # Null) =>
        /\ IsMarkdownResponse(received) => Shown = "markdown"
        /\ (~IsMarkdownResponse(received) /\ received.table # Absent) => Shown = "legacy"
        /\ (~IsMarkdownResponse(received) /\ received.table = Absent) => Shown = "none"

C22_Witness ==
    /\ Shown = "markdown"
    /\ received # Null
    /\ received.table # Absent

----------------------------------------------------------------------------
(* Claims about the step groups of RecipeTable.                             *)

\* The entries of recipe.ingredients whose base token the text of step i
\* holds in some mix of letter cases.
EntriesUsedIn(i) ==
    {n \in 1..Len(recipe.ingredients) :
        ContainsAnyCase(recipe.instructions[i], GetBaseIngredient(recipe.ingredients[n]))}

\* Row k of the built table shows an entry of recipe.ingredients.
RowOfRecipeIngredient(k) ==
    \E n \in 1..Len(recipe.ingredients) : recipe.ingredients[n] = table.rows[k].ingredient

\* C23: in every built table, for every row of an ingredient of
\* recipe.ingredients and every step, the cell is grouped iff the step is
\* not prep-flagged, the ingredient is used in the step and more than one
\* entry of recipe.ingredients is used in the step; grouped or not, every
\* cell is marked used, with the bullet, exactly when the step text holds
\* the token of its row, and is empty otherwise.
C23_StepGroups ==
    pc = "built" =>
        \A k \in TableRowIndices, i \in StepIndices :
            /\ RowOfRecipeIngredient(k) =>
                  (table.rows[k].cells[i].grouped <=>
                      /\ ~HoldsPrepWord(recipe.instructions[i])
                      /\ ContainsAnyCase(recipe.instructions[i], RowToken(k))
                      /\ Cardinality(EntriesUsedIn(i)) > 1)
            /\ IF ContainsAnyCase(recipe.instructions[i], RowToken(k))
               THEN MarkedUsed(k, i)
               ELSE MarkedEmpty(k, i)

\* A built table with a grouped cell, and with a cell that is used in a prep
\* step and not grouped.
C23_Witness ==
    /\ pc = "built"
    /\ \E k \in TableRowIndices, i \in StepIndices :
          /\ RowOfRecipeIngredient(k)
          /\ table.rows[k].cells[i].grouped
          /\ MarkedUsed(k, i)
    /\ \E k \in TableRowIndices, i \in StepIndices :
          /\ RowOfRecipeIngredient(k)
          /\ HoldsPrepWord(recipe.instructions[i])
          /\ Cardinality(EntriesUsedIn(i)) > 1
          /\ MarkedUsed(k, i)
          /\ ~table.rows[k].cells[i].grouped

\* C30: in every built table a step cell carries the grouped class only if
\* it carries the used class and its step is not prep-flagged, in the rows
\* of ingredient_groups and in the rows of a repeated ingredient string too.
C30_GroupedOnlyIfUsed ==
    pc = "built" =>
        \A k \in TableRowIndices, i \in StepIndices :
            table.rows[k].cells[i].grouped =>
                /\ table.rows[k].cells[i].used
                /\ ~HoldsPrepWord(recipe.instructions[i])

\* A table built from ingredient_groups in which two rows of one ingredient
\* string are grouped in a step, and a cell of a prep step is used and not
\* grouped.
C30_Witness ==
    /\ pc = "built"
    /\ table.hasGroups
    /\ \E k1, k2 \in TableRowIndices, i \in StepIndices :
          /\ k1 # k2
          /\ table.rows[k1].ingredient = table.rows[k2].ingredient
          /\ table.rows[k1].cells[i].grouped /\ table.rows[k1].cells[i].used
          /\ table.rows[k2].cells[i].grouped /\ table.rows[k2].cells[i].used
    /\ \E k \in TableRowIndices, i \in StepIndices :
          /\ HoldsPrepWord(recipe.instructions[i])
          /\ table.rows[k].cells[i].used
          /\ ~table.rows[k].cells[i].grouped

\* The cell of a table object is an object cell whose spanned field is true.
IsSpannedCell(cell) == cell.isObject /\ cell.spanned = <<TRUE>>

\* The cells of a row that are not spanned, in cell order.
UnspannedCells(cells) == SelectSeq(cells, LAMBDA cell : ~IsSpannedCell(cell))

\* The number of spanned cells of a row.
SpannedCount(cells) == Cardinality({j \in 1..Len(cells) : IsSpannedCell(cells[j])})

\* C24: in the shown headers/rows table every row renders its cells that are
\* not spanned, in cell order, one step cell each with the text of the cell:
\* with the rowSpan of an object cell whose rowspan is not zero, without a
\* rowSpan for any other object cell and for a string cell; so a row renders
\* (number of cells - number of spanned cells) step cells.
C24_LegacyRendering ==
    Shown = "legacy" =>
        /\ Len(ShownRows) = Len(received.table.rows)
        /\ \A i \in 1..Len(ShownRows) :
              LET cells == received.table.rows[i].cells
                  kept == UnspannedCells(cells)
                  tds == ShownRows[i].cells
              IN  /\ Len(tds) = Len(cells) - SpannedCount(cells)
                  /\ Len(tds) = Len(kept)
                  /\ \A j \in 1..Len(tds) :
                        /\ tds[j].className = "step-cell"
                        /\ tds[j].text = kept[j].text
                        /\ tds[j].rowSpan =
                              IF kept[j].isObject /\ kept[j].rowspan \notin {<< >>, <<0>>}
                              THEN kept[j].rowspan
                              ELSE << >>

\* A shown row with a spanned cell that also has a rowspan, followed by a
\* cell that is rendered.
C24_Witness ==
    /\ Shown = "legacy"
    /\ \E i \in 1..Len(ShownRows) :
          LET cells == received.table.rows[i].cells
          IN  /\ Len(cells) = 2
              /\ IsSpannedCell(cells[1])
              /\ cells[1].rowspan # << >>
              /\ Len(ShownRows[i].cells) = 1

----------------------------------------------------------------------------
(* Claims about the cells MarkdownTableRenderer renders.                    *)

\* Every row of the parsed grid has the cell count of row 0.
RectangularGrid ==
    \A i \in 1..Len(parsedRows) : Len(parsedRows[i]) = Len(parsedRows[1])

\* The rendered cells of column c in the data rows, each as its row (from 0)
\* and its position in the rendered row.
RenderedInColumn(c) ==
    {<<r, j>> \in (2..(Len(rendered) - 1)) \X (1..MaxCols) :
        /\ j <= Len(rendered[r + 1].cells)
        /\ rendered[r + 1].cells[j].col = c}

\* The rowSpan of a rendered cell.
SpanOf(cell) == rendered[cell[1] + 1].cells[cell[2]].rowSpan

\* The rendered cells of column c that cover row r.
Covering(r, c) ==
    {cell \in RenderedInColumn(c) : cell[1] <= r /\ r < cell[1] + SpanOf(cell)}

RECURSIVE SumOfSpans(_)
SumOfSpans(cells) ==
    IF cells = {} THEN 0
    ELSE LET cell == CHOOSE x \in cells : TRUE
         IN  SpanOf(cell) + SumOfSpans(cells \ {cell})

\* C25: in the table rendered for a rectangular grid, every position of a
\* data row (r >= 2) and a step column (c >= 1) is covered by exactly one
\* rendered cell, its own or one above it in the column whose rowSpan
\* reaches the row; no rowSpan extends past the last row; and the rowSpans
\* of the rendered cells of a column sum to the number of data rows.
C25_RenderCoverage ==
    (pc = "rendered" /\ RectangularGrid) =>
        \A c \in 1..(Len(parsedRows[1]) - 1) :
            /\ \A r \in 2..(Len(parsedRows) - 1) : Cardinality(Covering(r, c)) = 1
            /\ \A cell \in RenderedInColumn(c) : cell[1] + SpanOf(cell) <= Len(parsedRows)
            /\ Len(parsedRows) >= 2 => SumOfSpans(RenderedInColumn(c)) = Len(parsedRows) - 2

\* A rendered rectangular grid in which a position is covered by a cell of
\* an earlier row and a later position of the column by its own cell.
C25_Witness ==
    /\ pc = "rendered"
    /\ RectangularGrid
    /\ \E c \in 1..(Len(parsedRows[1]) - 1), r1, r2 \in 2..(Len(parsedRows) - 1) :
          /\ r1 < r2
          /\ \E cell \in Covering(r1, c) : cell[1] < r1
          /\ \E cell \in Covering(r2, c) : cell[1] = r2

----------------------------------------------------------------------------
(* Claims about the requests and the state of TableView.                    *)

\* C26: at most one /api/parse-to-table request is in flight at any time;
\* and once a response is stored in tableData no request is issued any
\* more: tableData stays as stored, and a step that changes showTable (a
\* click on the toggle button) changes nothing else.
C26_RequestDiscipline ==
    /\ [](inFlight <= 1)
    /\ [][tableData # Null =>
            /\ issued' = issued
            /\ inFlight' = inFlight
            /\ tableData' = tableData
            /\ (handler = "idle" /\ showTable' # showTable) =>
                  UNCHANGED <<loading, error, savingImage, received, handler>>]_vars

\* A second request was issued after a failed one, its response is stored,
\* and a later click has hidden the table.
C26_Witness ==
    /\ tableData # Null
    /\ issued = 2
    /\ inFlight = 0
    /\ handler = "idle"
    /\ ~showTable

\* The messages of the failures of a request: that of a rejected fetch, that
\* of a response that is not OK, that of a body that is not JSON.
FailureMessages ==
    {"Failed to fetch", "Failed to generate table", "Unexpected end of JSON input"}

\* C27: a step in which a request ends without table data stored is a
\* failure: it leaves tableData null and showTable false and puts the
\* failure message in error; while error holds it, tableData is null,
\* showTable is false, no request is in flight and loading is false once
\* the handler has ended; and the next click clears error, sets loading and
\* issues a new request.
C27_FailureHandling ==
    /\ [](error \in FailureMessages =>
            /\ tableData = Null
            /\ ~showTable
            /\ inFlight = 0
            /\ handler = "idle" => ~loading)
    /\ [][(inFlight' < inFlight /\ tableData' = Null) =>
            /\ error' \in FailureMessages
            /\ tableData = Null
            /\ ~showTable'
            /\ handler' = "idle" => ~loading']_vars
    /\ [][(error \in FailureMessages /\ handler = "idle") =>
            /\ error' = ""
            /\ loading'
            /\ issued' = issued + 1
            /\ inFlight' = 1
            /\ tableData' = Null
            /\ ~showTable']_vars

\* The request issued by the click after a failure has failed too.
C27_Witness ==
    /\ error = "Failed to fetch"
    /\ issued = 2
    /\ inFlight = 0
    /\ handler = "idle"
    /\ ~loading
    /\ tableData = Null

\* C28: after every step, showTable implies that tableData is not null and
\* loading is false; showTable turns true only in a step that stores a
\* response in tableData; and tableData, once set, is never written again.
C28_Visibility ==
    [][/\ showTable' => (tableData' # Null /\ ~loading')
       /\ (~showTable /\ showTable') => (tableData = Null /\ tableData' # Null)
       /\ tableData # Null => tableData' = tableData]_vars

\* C28, amended: after every step, showTable implies that tableData is not
\* null, and that loading is false once the handler of the response has
\* ended; showTable turns true only in the handler that stores a response,
\* or by a click on the toggle button while tableData is set, which changes
\* nothing else; and tableData, once set, is never written again.
C28_VisibilityAmended ==
    [][/\ showTable' => (tableData' # Null /\ (handler' = "idle" => ~loading'))
       /\ (~showTable /\ showTable') =>
             \/ tableData = Null /\ tableData' # Null
             \/ handler = "setShowTable" /\ tableData # Null
             \/ /\ handler = "idle" /\ tableData # Null /\ ~loading
                /\ UNCHANGED <<tableData, loading, error, savingImage, received, inFlight, issued, handler>>
       /\ tableData # Null => tableData' = tableData]_vars

\* The table is shown while the handler of the response has not yet set
\* loading to false.
C28_Witness ==
    /\ showTable
    /\ tableData # Null
    /\ loading
    /\ handler = "setLoading"

----------------------------------------------------------------------------
(* AuthProvider, contexts/AuthContext.tsx:26-170: the token and user       *)
(* state, the effect on [token], login, fetchProfile and logout, against a  *)
(* server that answers every request and accepts on /api/profile exactly   *)
(* the access token it issued last.  login and fetchProfile are closures   *)
(* of one render: the token they read is the token state of that render.   *)
(* register, which writes loading and error only, is left out.             *)

\* The profile the server returns.
UserData == [username |-> "cook"]

\* The messages login stores when it fails (108-116): the error of the
\* response body, the fixed message for a body without one, and the message
\* for a rejected fetch.
LoginErrors == {"Invalid credentials", "Login failed", "Network error occurred"}

\* GET /api/profile: the response is OK for the issued token only.
ProfileOk(bearer) == bearer # NoToken /\ bearer = accessToken

authIdle == <<ingredient, baseIngredient, recipe, table, markdownTable, parsedRows, merges, rendered, pc, viewVars>>

\* The page loads: the token state is read from localStorage (28-32), where
\* a token of an earlier visit may be saved, and the effect is scheduled
\* for the first render (37-45).
InitAuth ==
    /\ ingredient = EmptyString
    /\ baseIngredient = EmptyString
    /\ recipe = NoRecipe
    /\ table = NoTable
    /\ markdownTable = EmptyString
    /\ parsedRows = << >>
    /\ merges = EmptyMerges
    /\ rendered = << >>
    /\ pc = "auth"
    /\ NoTableView
    /\ accessToken \in {NoToken, 1}
    /\ localStorageToken \in NoToken..accessToken
    /\ token = localStorageToken
    /\ user = Null
    /\ authLoading = FALSE
    /\ authError = ""
    /\ loginPc = "idle"
    /\ closureToken = NoToken
    /\ profileRequests = {}
    /\ effectPending = TRUE
    /\ logoutInvoked = FALSE

\* The effect on [token] runs (37-45): with a token, fetchProfile of the
\* current render sends its request (52-56).
RunEffect ==
    /\ pc = "auth"
    /\ effectPending
    /\ effectPending' = FALSE
    /\ profileRequests' =
          IF token # NoToken
          THEN profileRequests \cup {[bearer |-> token, from |-> "effect"]}
          ELSE profileRequests
    /\ UNCHANGED <<user, token, localStorageToken, authLoading, authError, loginPc, closureToken, accessToken, logoutInvoked, authIdle>>

\* login is called (75-88); the form is disabled while loading
\* (LoginForm.tsx:57).
Login ==
    /\ pc = "auth"
    /\ ~authLoading
    /\ loginPc = "idle"
    /\ accessToken < MaxTokens
    /\ authLoading' = TRUE
    /\ authError' = ""
    /\ closureToken' = token
    /\ loginPc' = "login"
    /\ UNCHANGED <<user, token, localStorageToken, profileRequests, effectPending, accessToken, logoutInvoked, authIdle>>

\* /api/login answers OK with a new access token (92-105): the token is set
\* in the state and in localStorage, and fetchProfile of the login closure
\* sends its request with the token of that closure.
LoginResponseOk ==
    /\ pc = "auth"
    /\ loginPc = "login"
    /\ accessToken' = accessToken + 1
    /\ token' = accessToken'
    /\ localStorageToken' = accessToken'
    /\ effectPending' = TRUE
    /\ profileRequests' = profileRequests \cup {[bearer |-> closureToken, from |-> "login"]}
    /\ loginPc' = "profile"
    /\ logoutInvoked' = FALSE
    /\ UNCHANGED <<user, authLoading, authError, closureToken, authIdle>>

\* /api/login answers not OK, or the fetch is rejected (107-119).
LoginResponseFails ==
    /\ pc = "auth"
    /\ loginPc = "login"
    /\ authError' \in LoginErrors
    /\ authLoading' = FALSE
    /\ loginPc' = "idle"
    /\ UNCHANGED <<user, token, localStorageToken, closureToken, profileRequests, effectPending, accessToken, logoutInvoked, authIdle>>

\* /api/profile answers a request (58-68): an OK response sets the user,
\* any other calls logout (150-155).  The response to the request of login
\* also ends login (105, 117-119).
ProfileResponds ==
    /\ pc = "auth"
    /\ \E request \in profileRequests :
          /\ profileRequests' = profileRequests \ {request}
          /\ IF ProfileOk(request.bearer)
             THEN /\ user' = UserData
                  /\ UNCHANGED <<token, localStorageToken, effectPending>>
                  /\ authError' = authError
             ELSE /\ user' = Null
                  /\ token' = NoToken
                  /\ localStorageToken' = NoToken
                  /\ effectPending' = (effectPending \/ token # NoToken)
                  /\ authError' = ""
          /\ IF request.from = "login"
             THEN authLoading' = FALSE /\ loginPc' = "idle"
             ELSE UNCHANGED <<authLoading, loginPc>>
    /\ UNCHANGED <<closureToken, accessToken, logoutInvoked, authIdle>>

\* The user invokes logout (150-155); the button is rendered for a user
\* (UserProfile.tsx:8).
Logout ==
    /\ pc = "auth"
    /\ user # Null
    /\ user' = Null
    /\ token' = NoToken
    /\ localStorageToken' = NoToken
    /\ effectPending' = (effectPending \/ token # NoToken)
    /\ authError' = ""
    /\ logoutInvoked' = TRUE
    /\ UNCHANGED <<authLoading, loginPc, closureToken, profileRequests, accessToken, authIdle>>

NextAuth ==
    \/ RunEffect
    \/ Login
    \/ LoginResponseOk
    \/ LoginResponseFails
    \/ ProfileResponds
    \/ Logout

SpecAuth == InitAuth /\ [][NextAuth]_vars

\* The effect runs after the render that schedules it, and the server
\* answers every request.
SpecAuthFair ==
    /\ InitAuth
    /\ [][NextAuth]_vars
    /\ WF_vars(RunEffect)
    /\ WF_vars(LoginResponseOk \/ LoginResponseFails)
    /\ WF_vars(ProfileResponds)

----------------------------------------------------------------------------
(* Claims about AuthProvider.                                               *)

\* The token state and the localStorage token are the issued token, and the
\* user is the fetched profile.
LoggedIn ==
    /\ accessToken # NoToken
    /\ token = accessToken
    /\ localStorageToken = accessToken
    /\ user = UserData

\* C29: no profile request of login carries a token other than the issued
\* one; after an OK login the provider reaches the state in which the token
\* state and the localStorage token are the issued token and the user is
\* the fetched profile, unless the user invokes logout; and it leaves that
\* state only when the user invokes logout.
C29_LoginReachesProfile ==
    /\ [](\A request \in profileRequests :
             request.from = "login" => request.bearer = accessToken)
    /\ (loginPc = "profile") ~> (LoggedIn \/ logoutInvoked)
    /\ [][(LoggedIn /\ ~LoggedIn') => logoutInvoked']_vars

====
